---------------------------- MODULE Spec2Model ----------------------------
(***************************************************************************)
(* FloatChat front-end: the axis/chart-type selector (choose_axes) and the *)
(* nearest-port router (find_nearest_ports, render_map_with_route).        *)
(*                                                                         *)
(* Strings are sequences of one-character strings, so that str.lower()     *)
(* and the substring test `a in b` are computed, not assumed.              *)
(***************************************************************************)
EXTENDS Integers, Sequences, FiniteSets, TLC

VARIABLES
    table,        \* choose_axes: the DataFrame passed in
    axes,         \* choose_axes: the returned (x, y, kind), or NotCalled
    detected,     \* detect_date_column: the returned name, or NotCalled
    float_lat,    \* find_nearest_ports: first argument
    float_lon,    \* find_nearest_ports: second argument
    num_ports,    \* find_nearest_ports: third argument
    nearest,      \* find_nearest_ports: its outcome, or NotCalled
    float_df,     \* render_map_with_route: the float's row set
    dest_name,    \* render_map_with_route: the destination string
    rendered,     \* render_map_with_route: its outcome, or NotCalled
    messages,        \* chat app: st.session_state.messages
    history_loaded,  \* chat app: st.session_state.history_loaded
    chart_calls,     \* chat app: the choose_axes calls of the latest script run
    fresh,           \* chat app: what the latest run showed for a new answer
    ftp_cwd,         \* FTP mirror: the session's working directory
    local_fs,        \* FTP mirror: the local download directory
    ftp_stack,       \* FTP mirror: the calls of download_directory_recursive
    ftp_event,       \* FTP mirror: what was done with the latest listing entry
    ftp_runs,        \* FTP mirror: runs of main() started
    argo_profiles,       \* ingestion: the committed rows of argo_profiles
    disk_index,          \* ingestion: faiss_index.bin
    disk_map,            \* ingestion: metadata_map.npy
    faiss_index,         \* ingestion: the index in memory
    float_metadata_map,  \* ingestion: the map in memory
    ingest_pc,           \* ingestion: where the run is
    ingest_next,         \* ingestion: position of the next file of the walk
    ingest_event,        \* ingestion: what was done with the latest file
    ingest_runs,         \* ingestion: runs started
    lang_code,        \* session: st.session_state.lang_code
    do_translate,     \* session: st.session_state.do_translate
    map_is_visible,   \* session: st.session_state.map_is_visible
    map_float_data,   \* session: st.session_state.map_float_data
    map_float_id,     \* session: st.session_state.map_float_id
    map_dest,         \* session: st.session_state.map_dest
    fetch_map_data,   \* session: st.session_state.fetch_map_data
    url_history_id,   \* session: "history_id" in st.query_params
    run_due,          \* session: a script run is due without user input
    history_fetches,  \* session: requests for the shared history so far
    map_owed,         \* session: triggers of the map fetch less passes made
    last_run          \* session: what the latest step did

vars == <<table, axes, detected, float_lat, float_lon, num_ports, nearest,
          float_df, dest_name, rendered,
          messages, history_loaded, chart_calls, fresh,
          ftp_cwd, local_fs, ftp_stack, ftp_event, ftp_runs,
          argo_profiles, disk_index, disk_map, faiss_index, float_metadata_map,
          ingest_pc, ingest_next, ingest_event, ingest_runs,
          lang_code, do_translate, map_is_visible, map_float_data, map_float_id,
          map_dest, fetch_map_data, url_history_id, run_due, history_fetches,
          map_owed, last_run>>

axesVars  == <<table, axes, detected>>
routeVars == <<float_lat, float_lon, num_ports, nearest,
               float_df, dest_name, rendered>>
chatVars  == <<messages, history_loaded, chart_calls, fresh>>
ftpVars   == <<ftp_cwd, local_fs, ftp_stack, ftp_event, ftp_runs>>
ingestVars == <<argo_profiles, disk_index, disk_map, faiss_index,
                float_metadata_map, ingest_pc, ingest_next, ingest_event,
                ingest_runs>>
sessionVars == <<lang_code, do_translate, map_is_visible, map_float_data,
                 map_float_id, map_dest, fetch_map_data, url_history_id,
                 run_due, history_fetches, map_owed, last_run>>
restVars  == <<ftpVars, ingestVars, sessionVars>>

-----------------------------------------------------------------------------
(* Bounds of the model. *)

MaxCols == 3    \* columns of a table
MaxRows == 2    \* rows of a table

-----------------------------------------------------------------------------
(* Python values. *)

\* Python's None; a sequence, like every string of the model, and no string
\* of the program.
None == <<"<None>">>

\* The value of a result variable before the function has been applied.
NotCalled == [called |-> FALSE]

\* The chat app before its first script run.
ChatIdle ==
    /\ messages = <<>>
    /\ history_loaded = FALSE
    /\ chart_calls = <<>>
    /\ fresh = "none"

\* The directory an FTP session is in after login.
LoginDir == <<>>

\* No listing entry has been processed yet.
NoEvent == [kind |-> "none"]

\* The FTP mirror before its first run: nothing downloaded.
FtpIdle ==
    /\ ftp_cwd = LoginDir
    /\ local_fs = << >>
    /\ ftp_stack = <<>>
    /\ ftp_event = NoEvent
    /\ ftp_runs = 0

\* The ingestion before its first run: empty tables, no index on disk.
IngestIdle ==
    /\ argo_profiles = [k \in {"K1", "K2"} |-> 0]
    /\ disk_index = [exists |-> FALSE]
    /\ disk_map = [exists |-> FALSE]
    /\ faiss_index = <<>>
    /\ float_metadata_map = << >>
    /\ ingest_pc = "idle"
    /\ ingest_next = 1
    /\ ingest_event = [kind |-> "none"]
    /\ ingest_runs = 0

\* No step of the session has been taken.
NoRun == [kind |-> "none"]

\* The session state of the chat app before its first script run.
SessionIdle ==
    /\ lang_code = "en"
    /\ do_translate = FALSE
    /\ map_is_visible = FALSE
    /\ map_float_data = [present |-> FALSE, rows |-> <<>>]
    /\ map_float_id = ""
    /\ map_dest = ""
    /\ fetch_map_data = FALSE
    /\ url_history_id = FALSE
    /\ run_due = FALSE
    /\ history_fetches = 0
    /\ map_owed = 0
    /\ last_run = NoRun

\* What the specification at hand does not run, before it has run.
RestIdle == FtpIdle /\ IngestIdle /\ SessionIdle

Max(a, b) == IF a >= b THEN a ELSE b

SetMin(S) == CHOOSE m \in S : \A o \in S : m <= o

UpperChars == <<"A","B","C","D","E","F","G","H","I","J","K","L","M","N","O","P","Q","R","S","T","U","V","W","X","Y","Z">>
LowerChars == <<"a","b","c","d","e","f","g","h","i","j","k","l","m","n","o","p","q","r","s","t","u","v","w","x","y","z">>

\* str.lower() on one character.
UpperIndex == [c \in {UpperChars[i] : i \in 1..Len(UpperChars)} |->
                 CHOOSE i \in 1..Len(UpperChars) : UpperChars[i] = c]

LowerChar(c) ==
    IF c \in DOMAIN UpperIndex THEN LowerChars[UpperIndex[c]] ELSE c

\* str.lower()
Lower(s) == [i \in 1..Len(s) |-> LowerChar(s[i])]

\* Python's `sub in s` on strings.
Contains(sub, s) ==
    \E off \in 0..(Len(s) - Len(sub)) :
        \A j \in 1..Len(sub) : s[off + j] = sub[j]

S_date          == <<"d","a","t","e">>
S_temperature   == <<"t","e","m","p","e","r","a","t","u","r","e">>
S_temp          == <<"t","e","m","p">>
S_salinity      == <<"s","a","l","i","n","i","t","y">>
S_pressure      == <<"p","r","e","s","s","u","r","e">>
S_depth         == <<"d","e","p","t","h">>

-----------------------------------------------------------------------------
(* DataFrames.                                                             *)
(*                                                                         *)
(* A cell is one of                                                        *)
(*   "num"      a number                                                   *)
(*   "null"     None / NaN                                                 *)
(*   "numstr"   a string that parses as a number  ("3.5")                  *)
(*   "datestr"  a string that parses as a date    ("2002-03-01")           *)
(*   "str"      any other string                  ("abc")                  *)
(* A column is [name, dtype, vals]; dtype is "number" or "object".  A      *)
(* table is [nrows, cols], every column holding nrows cells.               *)
(***************************************************************************)

CellKinds == {"num", "null", "numstr", "datestr", "str"}

\* The dtype pandas gives a column built from row mappings, pd.DataFrame(data):
\* numbers with or without missing values are a numeric column, anything else
\* (strings, or nothing but None) is an object column.
InferDtype(vals) ==
    IF /\ \A i \in 1..Len(vals) : vals[i] \in {"num", "null"}
       /\ \E i \in 1..Len(vals) : vals[i] = "num"
    THEN "number" ELSE "object"

\* pd.to_numeric(series, errors="ignore") on an object column: an empty column
\* comes back as int64; a column whose every value is a number, a numeric
\* string or missing comes back numeric; any other value makes the conversion
\* fail, and errors="ignore" returns the column as it was.
ToNumericIgnore(col) ==
    IF Len(col.vals) = 0
    THEN [col EXCEPT !.dtype = "number"]
    ELSE IF \A i \in 1..Len(col.vals) : col.vals[i] \in {"num", "null", "numstr"}
         THEN [col EXCEPT !.dtype = "number",
                          !.vals = [i \in 1..Len(col.vals) |->
                                      IF col.vals[i] = "numstr" THEN "num" ELSE col.vals[i]]]
         ELSE col

to_numeric_df(df) ==
    [df EXCEPT !.cols = [i \in 1..Len(df.cols) |->
                           IF df.cols[i].dtype = "object"
                           THEN ToNumericIgnore(df.cols[i])
                           ELSE df.cols[i]]]

\* list(df.columns)
ColumnNames(df) == [i \in 1..Len(df.cols) |-> df.cols[i].name]

\* df.select_dtypes(include=["number"]).columns.tolist()
NumericCols(df) ==
    SelectSeq(ColumnNames(df),
              LAMBDA n : \E i \in 1..Len(df.cols) :
                            df.cols[i].name = n /\ df.cols[i].dtype = "number")

\* `c in numeric_cols`
InSeq(x, s) == \E i \in 1..Len(s) : s[i] = x

\* One value under pd.to_datetime: numbers are epoch offsets and date strings
\* parse; a missing value becomes NaT without being an error; other strings
\* (numeric strings below 1000 included) do not parse.
DateParses(v) == v \in {"num", "datestr"}
DateFails(v)  == v \in {"numstr", "str"}

\* pd.to_datetime(series, errors="raise") raises
ToDatetimeRaises(col) == \E i \in 1..Len(col.vals) : DateFails(col.vals[i])

\* pd.to_datetime(series, errors="coerce").notna().sum()
CoercedNotNa(col) == Cardinality({i \in 1..Len(col.vals) : DateParses(col.vals[i])})

\* The threshold taken as a quarter of the values that are not missing.
M_IsDateLike_QuarterOfNonNull(col) ==
    /\ Contains(S_date, Lower(col.name))
    /\ \/ ~ToDatetimeRaises(col)
       \/ 4 * CoercedNotNa(col)
             >= Cardinality({i \in 1..Len(col.vals) : col.vals[i] # "null"})

\* The test detect_date_column applies to one column.
IsDateLike(col) ==
    /\ Contains(S_date, Lower(col.name))
    /\ \/ ~ToDatetimeRaises(col)
       \/ CoercedNotNa(col) >= Max(1, Len(col.vals) \div 4)

detect_date_column(df) ==
    LET hits == {i \in 1..Len(df.cols) : IsDateLike(df.cols[i])}
    IN  IF hits = {} THEN None ELSE df.cols[SetMin(hits)].name

\* for pref in prefs: for c in cols: if pref in c.lower() and c in numeric_cols:
\* the first c reached, or None when the loops end without one.
FirstPreferred(prefs, cols, numeric_cols) ==
    LET match(p) == {i \in 1..Len(cols) :
                        Contains(prefs[p], Lower(cols[i])) /\ InSeq(cols[i], numeric_cols)}
        found == {p \in 1..Len(prefs) : match(p) # {}}
    IN  IF found = {} THEN None ELSE cols[SetMin(match(SetMin(found)))]

\* The date rule's list with salinity first, and the pressure rule's list
\* without salinity.
M_DatePrefs     == <<S_salinity, S_temperature, S_temp, S_pressure>>
M_PressurePrefs == <<S_temperature, S_temp>>

DatePrefs     == <<S_temperature, S_temp, S_salinity, S_pressure>>
PressurePrefs == <<S_temperature, S_salinity, S_temp>>

Axes(x, y, kind) == [called |-> TRUE, x |-> x, y |-> y, kind |-> kind]

\* The pressure rule taking its partner among all the columns, numeric or not.
M_PressureRules_OthersUnfiltered(cols, numeric_cols) ==
    LET hits == {i \in 1..Len(cols) : Contains(S_pressure, Lower(cols[i]))}
        pressure_col == IF hits = {} THEN None ELSE cols[SetMin(hits)]
        pref == FirstPreferred(PressurePrefs, cols, numeric_cols)
        others == SelectSeq(cols, LAMBDA c : c # pressure_col)
    IN  IF pressure_col # None /\ pref # None
        THEN Axes(pref, pressure_col, "line")
        ELSE IF pressure_col # None /\ Len(others) > 0
        THEN Axes(others[1], pressure_col, "line")
        ELSE IF Len(numeric_cols) >= 2
        THEN Axes(numeric_cols[1], numeric_cols[2], "scatter")
        ELSE Axes(None, None, "table")

\* The scatter rule with the two numeric columns exchanged.
M_PressureRules_ScatterSwapped(cols, numeric_cols) ==
    LET hits == {i \in 1..Len(cols) : Contains(S_pressure, Lower(cols[i]))}
        pressure_col == IF hits = {} THEN None ELSE cols[SetMin(hits)]
        pref == FirstPreferred(PressurePrefs, cols, numeric_cols)
        others == SelectSeq(numeric_cols, LAMBDA c : c # pressure_col)
    IN  IF pressure_col # None /\ pref # None
        THEN Axes(pref, pressure_col, "line")
        ELSE IF pressure_col # None /\ Len(others) > 0
        THEN Axes(others[1], pressure_col, "line")
        ELSE IF Len(numeric_cols) >= 2
        THEN Axes(numeric_cols[2], numeric_cols[1], "scatter")
        ELSE Axes(None, None, "table")

\* The pressure-profile and later rules of choose_axes.
PressureRules(cols, numeric_cols) ==
    LET hits == {i \in 1..Len(cols) : Contains(S_pressure, Lower(cols[i]))}
        pressure_col == IF hits = {} THEN None ELSE cols[SetMin(hits)]
        pref == FirstPreferred(PressurePrefs, cols, numeric_cols)
        others == SelectSeq(numeric_cols, LAMBDA c : c # pressure_col)
    IN  IF pressure_col # None /\ pref # None
        THEN Axes(pref, pressure_col, "line")
        ELSE IF pressure_col # None /\ Len(others) > 0
        THEN Axes(others[1], pressure_col, "line")
        ELSE IF Len(numeric_cols) >= 2
        THEN Axes(numeric_cols[1], numeric_cols[2], "scatter")
        ELSE Axes(None, None, "table")

\* The date rule returning without a test that a numeric column exists.
M_DateRules_NoNumericTest(df, cols, numeric_cols) ==
    LET date_col == detect_date_column(df)
        pref == FirstPreferred(DatePrefs, cols, numeric_cols)
    IN  IF date_col # None /\ pref # None
        THEN Axes(date_col, pref, "line")
        ELSE IF date_col # None
        THEN Axes(date_col,
                  IF Len(numeric_cols) > 0 THEN numeric_cols[1] ELSE None, "line")
        ELSE PressureRules(cols, numeric_cols)

\* The pressure rule tried before the date rule.
M_DateRules_PressureFirst(df, cols, numeric_cols) ==
    LET date_col == detect_date_column(df)
        pref == FirstPreferred(DatePrefs, cols, numeric_cols)
        later == PressureRules(cols, numeric_cols)
    IN  IF later.kind = "line"
        THEN later
        ELSE IF date_col # None /\ pref # None
        THEN Axes(date_col, pref, "line")
        ELSE IF date_col # None /\ Len(numeric_cols) > 0
        THEN Axes(date_col, numeric_cols[1], "line")
        ELSE later

\* The date rule of choose_axes and what follows it.
DateRules(df, cols, numeric_cols) ==
    LET date_col == detect_date_column(df)
        pref == FirstPreferred(DatePrefs, cols, numeric_cols)
    IN  IF date_col # None /\ pref # None
        THEN Axes(date_col, pref, "line")
        ELSE IF date_col # None /\ Len(numeric_cols) > 0
        THEN Axes(date_col, numeric_cols[1], "line")
        ELSE PressureRules(cols, numeric_cols)

\* The date rule tried before the single-row rule.
M_choose_axes_DateFirst(df0) ==
    LET df == to_numeric_df(df0)
        cols == ColumnNames(df)
        numeric_cols == NumericCols(df)
    IN  IF detect_date_column(df) # None /\ Len(numeric_cols) > 0
        THEN DateRules(df, cols, numeric_cols)
        ELSE IF df.nrows = 1 /\ Len(numeric_cols) > 0
        THEN Axes(None, None, "bar")
        ELSE PressureRules(cols, numeric_cols)

\* The single-row rule written as len(df) <= 1.
M_choose_axes_AtMostOneRow(df0) ==
    LET df == to_numeric_df(df0)
        cols == ColumnNames(df)
        numeric_cols == NumericCols(df)
    IN  IF df.nrows <= 1 /\ Len(numeric_cols) > 0
        THEN Axes(None, None, "bar")
        ELSE DateRules(df, cols, numeric_cols)

choose_axes(df0) ==
    LET df == to_numeric_df(df0)
        cols == ColumnNames(df)
        numeric_cols == NumericCols(df)
    IN  IF df.nrows = 1 /\ Len(numeric_cols) > 0
        THEN Axes(None, None, "bar")
        ELSE DateRules(df, cols, numeric_cols)

-----------------------------------------------------------------------------
(* The tables choose_axes is applied to. *)

ColNames == {S_date, S_temperature, S_salinity, S_pressure, S_depth}

\* The cells of a column of n rows: all of one kind, or one cell of one kind
\* followed by cells of another.
ValPatterns ==
    {<<k, k>> : k \in CellKinds} \cup {<<"datestr", "str">>}

ColVals(n) ==
    {[i \in 1..n |-> IF i = 1 THEN p[1] ELSE p[2]] : p \in ValPatterns}

\* A column of n rows.  With no rows there is nothing to infer the dtype from,
\* and the column has the dtype it was declared with.
Columns(n) ==
    IF n = 0
    THEN {[name |-> c, dtype |-> d, vals |-> <<>>] :
            c \in ColNames, d \in {"number", "object"}}
    ELSE {[name |-> c, dtype |-> InferDtype(v), vals |-> v] :
            c \in ColNames, v \in ColVals(n)}

\* The row counts: none, one, several.
RowCounts == {0, 1, MaxRows}

\* Column names of a DataFrame built from row mappings are distinct.
DistinctNames(cs) ==
    \A i, j \in 1..Len(cs) : i # j => cs[i].name # cs[j].name

-----------------------------------------------------------------------------
(* The selector applied to one table. *)

InitAxes ==
    /\ \E n \in RowCounts, k \in 0..MaxCols :
          \E cs \in [1..k -> Columns(n)] :
             /\ DistinctNames(cs)
             /\ table = [nrows |-> n, cols |-> cs]
    /\ axes = NotCalled
    /\ detected = NotCalled
    /\ float_lat = None /\ float_lon = None /\ num_ports = 0
    /\ nearest = NotCalled
    /\ float_df = None /\ dest_name = None
    /\ rendered = NotCalled
    /\ ChatIdle
    /\ RestIdle

ChooseAxes ==
    /\ ~axes.called
    /\ axes' = choose_axes(table)
    /\ UNCHANGED <<table, detected, routeVars, chatVars, restVars>>

NextAxes == ChooseAxes

SpecAxes == InitAxes /\ [][NextAxes]_vars


-----------------------------------------------------------------------------
(* Date detection applied to one column, as choose_axes applies it: after  *)
(* the numeric coercion of the table.                                      *)

MaxLen == 8    \* values of the column

S_Date       == <<"D","a","t","e">>
S_obs_date   == <<"o","b","s","_","d","a","t","e">>

DateColNames == {S_date, S_Date, S_obs_date, S_depth}

\* The values of the column: date strings, other strings and missing values.
DateCellKinds == {"datestr", "str", "null"}

InitDate ==
    /\ \E n \in 0..MaxLen, c \in DateColNames :
          \E v \in [1..n -> DateCellKinds] :
             table = [nrows |-> n,
                      cols  |-> <<[name |-> c, dtype |-> InferDtype(v), vals |-> v]>>]
    /\ axes = NotCalled
    /\ detected = NotCalled
    /\ float_lat = None /\ float_lon = None /\ num_ports = 0
    /\ nearest = NotCalled
    /\ float_df = None /\ dest_name = None
    /\ rendered = NotCalled
    /\ ChatIdle
    /\ RestIdle

DetectDateColumn ==
    /\ ~detected.called
    /\ detected' = [called |-> TRUE, name |-> detect_date_column(to_numeric_df(table))]
    /\ UNCHANGED <<table, axes, routeVars, chatVars, restVars>>

NextDate == DetectDateColumn

SpecDate == InitDate /\ [][NextDate]_vars

-----------------------------------------------------------------------------
(* The port catalog.  Latitudes and longitudes are in microdegrees.        *)

\* The catalog with a port entered twice, the second time in capitals.
M_GLOBAL_OCEAN_PORTS_Duplicate ==
  << [name |-> <<"D","u","r","b","a","n",","," ","S","o","u","t","h"," ","A","f","r","i","c","a">>,
      lat |-> -29858700, lon |-> 31021800],
     [name |-> <<"M","o","m","b","a","s","a",","," ","K","e","n","y","a">>,
      lat |-> -4050000, lon |-> 39666700],
     [name |-> <<"C","h","e","n","n","a","i",","," ","I","n","d","i","a">>,
      lat |-> 13082700, lon |-> 80270700],
     [name |-> <<"C","o","l","o","m","b","o",","," ","S","r","i"," ","L","a","n","k","a">>,
      lat |-> 6927100, lon |-> 79861200],
     [name |-> <<"C","h","i","t","t","a","g","o","n","g",","," ","B","a","n","g","l","a","d","e","s","h">>,
      lat |-> 22347500, lon |-> 91812300],
     [name |-> <<"P","o","r","t"," ","L","o","u","i","s",","," ","M","a","u","r","i","t","i","u","s">>,
      lat |-> -20161000, lon |-> 57502900],
     [name |-> <<"S","i","n","g","a","p","o","r","e">>,
      lat |-> 1290270, lon |-> 103851959],
     [name |-> <<"S","h","a","n","g","h","a","i",","," ","C","h","i","n","a">>,
      lat |-> 31230400, lon |-> 121473700],
     [name |-> <<"Y","o","k","o","h","a","m","a",","," ","J","a","p","a","n">>,
      lat |-> 35443700, lon |-> 139638000],
     [name |-> <<"L","o","s"," ","A","n","g","e","l","e","s",","," ","U","S","A">>,
      lat |-> 33729700, lon |-> -118262500],
     [name |-> <<"S","y","d","n","e","y",","," ","A","u","s","t","r","a","l","i","a">>,
      lat |-> -33868800, lon |-> 151209300],
     [name |-> <<"R","o","t","t","e","r","d","a","m",","," ","N","e","t","h","e","r","l","a","n","d","s">>,
      lat |-> 51924400, lon |-> 4477700],
     [name |-> <<"N","e","w"," ","Y","o","r","k",","," ","U","S","A">>,
      lat |-> 40730600, lon |-> -73986500],
     [name |-> <<"S","a","n","t","o","s",","," ","B","r","a","z","i","l">>,
      lat |-> -23991000, lon |-> -46381300],
     [name |-> <<"S","I","N","G","A","P","O","R","E">>,
      lat |-> 6453100, lon |-> 3395800] >>

GLOBAL_OCEAN_PORTS ==
  << [name |-> <<"D","u","r","b","a","n",","," ","S","o","u","t","h"," ","A","f","r","i","c","a">>,
      lat |-> -29858700, lon |-> 31021800],
     [name |-> <<"M","o","m","b","a","s","a",","," ","K","e","n","y","a">>,
      lat |-> -4050000, lon |-> 39666700],
     [name |-> <<"C","h","e","n","n","a","i",","," ","I","n","d","i","a">>,
      lat |-> 13082700, lon |-> 80270700],
     [name |-> <<"C","o","l","o","m","b","o",","," ","S","r","i"," ","L","a","n","k","a">>,
      lat |-> 6927100, lon |-> 79861200],
     [name |-> <<"C","h","i","t","t","a","g","o","n","g",","," ","B","a","n","g","l","a","d","e","s","h">>,
      lat |-> 22347500, lon |-> 91812300],
     [name |-> <<"P","o","r","t"," ","L","o","u","i","s",","," ","M","a","u","r","i","t","i","u","s">>,
      lat |-> -20161000, lon |-> 57502900],
     [name |-> <<"S","i","n","g","a","p","o","r","e">>,
      lat |-> 1290270, lon |-> 103851959],
     [name |-> <<"S","h","a","n","g","h","a","i",","," ","C","h","i","n","a">>,
      lat |-> 31230400, lon |-> 121473700],
     [name |-> <<"Y","o","k","o","h","a","m","a",","," ","J","a","p","a","n">>,
      lat |-> 35443700, lon |-> 139638000],
     [name |-> <<"L","o","s"," ","A","n","g","e","l","e","s",","," ","U","S","A">>,
      lat |-> 33729700, lon |-> -118262500],
     [name |-> <<"S","y","d","n","e","y",","," ","A","u","s","t","r","a","l","i","a">>,
      lat |-> -33868800, lon |-> 151209300],
     [name |-> <<"R","o","t","t","e","r","d","a","m",","," ","N","e","t","h","e","r","l","a","n","d","s">>,
      lat |-> 51924400, lon |-> 4477700],
     [name |-> <<"N","e","w"," ","Y","o","r","k",","," ","U","S","A">>,
      lat |-> 40730600, lon |-> -73986500],
     [name |-> <<"S","a","n","t","o","s",","," ","B","r","a","z","i","l">>,
      lat |-> -23991000, lon |-> -46381300],
     [name |-> <<"L","a","g","o","s",","," ","N","i","g","e","r","i","a">>,
      lat |-> 6453100, lon |-> 3395800] >>

\* The float positions find_nearest_ports is applied to: the position of the
\* third catalog port, two positions whose distances to the third and fourth
\* catalog ports differ by 3 m (either way) and round to the same value, and
\* three positions in the open ocean.
FloatPositions ==
  << [lat |-> 13082700, lon |-> 80270700],
     [lat |-> 9646348, lon |-> 85000000],
     [lat |-> 9646399, lon |-> 85000000],
     [lat |-> -10000000, lon |-> 70000000],
     [lat |-> 30000000, lon |-> -40000000],
     [lat |-> -50000000, lon |-> 100000000] >>

\* geopy.distance.distance(float, port): the WGS-84 geodesic distance from
\* FloatPositions[p] to GLOBAL_OCEAN_PORTS[i], in decimetres (10^-4 km),
\* truncated.
FloatPortDm ==
  << <<71033172, 48717836, 0, 6823406, 15954844, 44427148, 29082852, 46644107, 64120941, 144667781, 91199556, 78998428, 134863468, 143046621, 84389655>>,
     <<72434188, 52511660, 6409899, 6409869, 15825507, 44658746, 22825371, 44599105, 62080201, 146154579, 84792067, 85201863, 140266591, 146415850, 89822575>>,
     <<72434224, 52511675, 6409866, 6409895, 15825457, 44658788, 22825393, 44599070, 62080168, 146154528, 84792102, 85201819, 140266538, 146415873, 89822570>>,
     <<46014775, 34133565, 27937364, 21677796, 42976308, 17501600, 39533830, 71354117, 88595206, 172462655, 85920018, 92620458, 151068739, 121596789, 76051519>>,
     <<100244193, 92464534, 120452913, 124207206, 122632542, 118048715, 148529586, 129518754, 127599004, 72314526, 188819089, 43674280, 32850446, 60132208, 52305559>>,
     <<60667065, 75793838, 72494877, 66011722, 80538904, 49886915, 56954442, 92443639, 102374773, 164175008, 45039255, 144222635, 188748022, 111653137, 110274699>> >>

\* geopy.distance.distance(port, port), in decimetres, truncated.
PortPortDm ==
  << <<0, 29982600, 71033172, 66163156, 86984540, 28719038, 84351856, 117020549, 134447540, 170977623, 105677748, 94234851, 132998718, 75702364, 49861772>>,
     <<29982600, 0, 48717836, 46281078, 63779744, 26300583, 71645108, 94688250, 111770013, 160092969, 117261353, 70380625, 122876249, 94328973, 41950522>>,
     <<71033172, 48717836, 0, 6823406, 15954844, 44427148, 29082852, 46644107, 64120941, 144667781, 91199556, 78998428, 134863468, 143046621, 84389655>>,
     <<66163156, 46281078, 6823406, 0, 21346201, 38691690, 27346193, 50918540, 68418440, 151190152, 87460918, 84031348, 140927900, 140020159, 84443064>>,
     <<86984540, 63779744, 15954844, 21346201, 0, 60015967, 26695130, 30979323, 48345781, 130330122, 88459253, 79053113, 128689757, 157626559, 95838422>>,
     <<28719038, 26300583, 44427148, 38691690, 60015967, 0, 55829219, 88855222, 106080799, 184450670, 91166127, 94961360, 149157002, 104421369, 66112599>>,
     <<84351856, 71645108, 29082852, 27346193, 26695130, 55829219, 0, 37980968, 52895331, 141536545, 62935851, 105385461, 153454999, 159494430, 111585389>>,
     <<117020549, 94688250, 46644107, 50918540, 30979323, 88855222, 37980968, 0, 17514855, 104777485, 78528444, 89472189, 118802265, 185809443, 122423892>>,
     <<134447540, 111770013, 64120941, 68418440, 48345781, 106080799, 52895331, 17514855, 0, 88735879, 77669876, 93909378, 108985546, 186122358, 135018314>>,
     <<170977623, 160092969, 144667781, 151190152, 130330122, 184450670, 141536545, 104777485, 88735879, 0, 120443999, 90070165, 39622311, 99290727, 124447945>>,
     <<105677748, 117261353, 91199556, 87460918, 88459253, 91166127, 62935851, 78528444, 77669876, 120443999, 0, 166846161, 159897801, 133374172, 155257198>>,
     <<94234851, 70380625, 78998428, 84031348, 79053113, 94961360, 105385461, 89472189, 93909378, 90070165, 166846161, 0, 58668753, 97570865, 50423375>>,
     <<132998718, 122876249, 134863468, 140927900, 128689757, 149157002, 153454999, 118802265, 108985546, 39622311, 159897801, 58668753, 0, 77137092, 84825639>>,
     <<75702364, 94328973, 143046621, 140020159, 157626559, 104421369, 159494430, 185809443, 186122358, 99290727, 133374172, 97570865, 77137092, 0, 63657888>>,
     <<49861772, 41950522, 84389655, 84443064, 95838422, 66112599, 111585389, 122423892, 135018314, 124447945, 155257198, 50423375, 84825639, 63657888, 0>> >>


NumPortsInCatalog == Len(GLOBAL_OCEAN_PORTS)

Coords(r) == [lat |-> r.lat, lon |-> r.lon]

\* geopy.distance.distance(a, b), in decimetres: a is a float position or a
\* port, b is a port.
GeodesicDm(a, b) ==
    LET ia == {i \in 1..NumPortsInCatalog : Coords(GLOBAL_OCEAN_PORTS[i]) = a}
        ib == {i \in 1..NumPortsInCatalog : Coords(GLOBAL_OCEAN_PORTS[i]) = b}
        pa == {p \in 1..Len(FloatPositions) : FloatPositions[p] = a}
    IN  IF ia # {}
        THEN PortPortDm[SetMin(ia)][SetMin(ib)]
        ELSE FloatPortDm[SetMin(pa)][SetMin(ib)]

\* round(km, 2): a distance in decimetres to hundredths of a kilometre.
Round2(dm) == (dm + 50) \div 100

-----------------------------------------------------------------------------
(* Coordinates as Python values: [kind, val].                              *)
(*   "float"  a finite number, val in microdegrees                         *)
(*   "nan"    float("nan")                                                 *)
(*   "inf"    float("inf")                                                 *)
(*   "none"   None (not a number)                                          *)
(*   "npint"  a numpy.int64, the first value of an integer column          *)

Num(v)   == [kind |-> "float", val |-> v]
NaN      == [kind |-> "nan",   val |-> 0]
Inf      == [kind |-> "inf",   val |-> 0]
PyNone   == [kind |-> "none",  val |-> 0]
NpInt(v) == [kind |-> "npint", val |-> v]

\* isinstance(v, (int, float)): NaN and infinity are floats (numpy.float64
\* is a float too); numpy.int64 is neither an int nor a float.
IsIntOrFloat(v) == v.kind \in {"float", "nan", "inf"}

\* math.isfinite
IsFinite(v) == v.kind \in {"float", "npint"}

\* geopy's Point refuses coordinates that are not finite (ValueError).
GeopyRaises(lat, lon) == ~IsFinite(lat) \/ ~IsFinite(lon)

\* The sort left out: the list stays in catalog order.
M_SortByDistance_Unsorted(s) == s

\* A sort that is not stable: equal keys come out in reverse order.
M_SortByDistance_Unstable(s) ==
    LET rank(i) == 1 + Cardinality({j \in 1..Len(s) :
                          \/ s[j].distance_from_float < s[i].distance_from_float
                          \/ /\ s[j].distance_from_float = s[i].distance_from_float
                             /\ j > i})
    IN  [r \in 1..Len(s) |-> s[CHOOSE i \in 1..Len(s) : rank(i) = r]]

\* distances.sort(key=lambda x: x['distance_from_float']): s in ascending
\* order of the key, equal keys keeping their order in s (list.sort is stable).
SortByDistance(s) ==
    LET rank(i) == 1 + Cardinality({j \in 1..Len(s) :
                          \/ s[j].distance_from_float < s[i].distance_from_float
                          \/ /\ s[j].distance_from_float = s[i].distance_from_float
                             /\ j < i})
    IN  [r \in 1..Len(s) |-> s[CHOOSE i \in 1..Len(s) : rank(i) = r]]

\* s[:n] for n >= 0
Prefix(s, n) == SubSeq(s, 1, IF n <= Len(s) THEN n ELSE Len(s))

\* The list `distances` before it is sorted.
Distances(lat, lon) ==
    [i \in 1..NumPortsInCatalog |->
        [name |-> GLOBAL_OCEAN_PORTS[i].name,
         lat  |-> GLOBAL_OCEAN_PORTS[i].lat,
         lon  |-> GLOBAL_OCEAN_PORTS[i].lon,
         distance_from_float |->
            Round2(GeodesicDm([lat |-> lat.val, lon |-> lon.val],
                              Coords(GLOBAL_OCEAN_PORTS[i])))]]

Returned(ports) == [called |-> TRUE, raised |-> FALSE, ports |-> ports]
Raised          == [called |-> TRUE, raised |-> TRUE,  ports |-> <<>>]

find_nearest_ports(lat, lon, n) ==
    IF ~IsIntOrFloat(lat) \/ ~IsIntOrFloat(lon)
    THEN Returned(<<>>)
    ELSE IF GeopyRaises(lat, lon)
    THEN Raised
    ELSE Returned(Prefix(SortByDistance(Distances(lat, lon)), n))

-----------------------------------------------------------------------------
(* render_map_with_route.                                                  *)
(*                                                                         *)
(* float_df is [nrows, has_lat, has_lon, lat, lon]: the number of rows,    *)
(* whether the latitude and longitude columns exist, and the first row's   *)
(* values of the two.  The outcome records which notice was shown, whether *)
(* the map was drawn, and which steps ran.                                 *)

DestinationNotFound == 0

\* The lookup without .lower(): case-sensitive.
M_ResolveDestination_CaseSensitive(dest) ==
    LET hits == {i \in 1..NumPortsInCatalog :
                    Contains(dest, GLOBAL_OCEAN_PORTS[i].name)}
    IN  IF hits = {} THEN DestinationNotFound ELSE SetMin(hits)

\* next((p for p in GLOBAL_OCEAN_PORTS
\*       if dest_name.lower() in p["name"].lower()), None),
\* as an index into the catalog.
ResolveDestination(dest) ==
    LET hits == {i \in 1..NumPortsInCatalog :
                    Contains(Lower(dest), Lower(GLOBAL_OCEAN_PORTS[i].name))}
    IN  IF hits = {} THEN DestinationNotFound ELSE SetMin(hits)

\* The total without the leg from the port to the destination.
M_RouteDetails_NoSecondLeg(nearest_ports, dest_port) ==
    [i \in 1..Len(nearest_ports) |->
        [name |-> nearest_ports[i].name,
         total_distance |-> nearest_ports[i].distance_from_float,
         distance_to_port |-> nearest_ports[i].distance_from_float,
         is_primary |-> (i = 1)]]

\* The list re-sorted by total_distance after the loop, each entry keeping
\* its flag.
M_RouteDetails_SortedByTotal(nearest_ports, dest_port) ==
    LET s == [i \in 1..Len(nearest_ports) |->
                 [name |-> nearest_ports[i].name,
                  total_distance |->
                     Round2(nearest_ports[i].distance_from_float * 100
                            + GeodesicDm(Coords(nearest_ports[i]),
                                         Coords(GLOBAL_OCEAN_PORTS[dest_port]))),
                  distance_to_port |-> nearest_ports[i].distance_from_float,
                  is_primary |-> (i = 1)]]
        rank(i) == 1 + Cardinality({j \in 1..Len(s) :
                          \/ s[j].total_distance < s[i].total_distance
                          \/ /\ s[j].total_distance = s[i].total_distance
                             /\ j < i})
    IN  [r \in 1..Len(s) |-> s[CHOOSE i \in 1..Len(s) : rank(i) = r]]

\* The list route_details built by the loop over nearest_ports.
RouteDetails(nearest_ports, dest_port) ==
    [i \in 1..Len(nearest_ports) |->
        LET port == nearest_ports[i]
            distance_port_to_dest ==
                GeodesicDm(Coords(port), Coords(GLOBAL_OCEAN_PORTS[dest_port]))
        IN  [name |-> port.name,
             total_distance |->
                Round2(port.distance_from_float * 100 + distance_port_to_dest),
             distance_to_port |-> port.distance_from_float,
             is_primary |-> (i = 1)]]

Outcome(what, nearest_done, dest_done, dest_port, details) ==
    [called           |-> TRUE,
     outcome          |-> what,
     map              |-> (what = "map"),
     nearest_computed |-> nearest_done,
     dest_looked_up   |-> dest_done,
     dest_port        |-> dest_port,
     route_details    |-> details]

\* num_ports: int = 4, and the num_ports=4 of render_map_with_route's call.
DefaultNumPorts == 4

\* The routes the summary table prints: route_details[0] .. route_details[3].
RoutesPrinted == 4

\* The destination resolved as the first step, before the data checks.
M_render_map_with_route_DestFirst(df, dest) ==
    IF ResolveDestination(dest) = DestinationNotFound
    THEN Outcome("error_destination_not_found", FALSE, TRUE, DestinationNotFound, <<>>)
    ELSE IF df.nrows = 0
    THEN Outcome("warning_no_data", FALSE, TRUE, DestinationNotFound, <<>>)
    ELSE IF ~df.has_lat \/ ~df.has_lon
    THEN Outcome("warning_no_lat_lon", FALSE, TRUE, DestinationNotFound, <<>>)
    ELSE
      LET nearest_ports == find_nearest_ports(df.lat, df.lon, DefaultNumPorts)
          dest_port == ResolveDestination(dest)
      IN  IF nearest_ports.raised
          THEN Outcome("raised", TRUE, TRUE, DestinationNotFound, <<>>)
          ELSE IF Len(nearest_ports.ports) = 0
          THEN Outcome("error_no_nearest_port", TRUE, TRUE, DestinationNotFound, <<>>)
          ELSE Outcome("map", TRUE, TRUE, dest_port,
                       RouteDetails(nearest_ports.ports, dest_port))

render_map_with_route(df, dest) ==
    IF df.nrows = 0
    THEN Outcome("warning_no_data", FALSE, FALSE, DestinationNotFound, <<>>)
    ELSE IF ~df.has_lat \/ ~df.has_lon
    THEN Outcome("warning_no_lat_lon", FALSE, FALSE, DestinationNotFound, <<>>)
    ELSE
      LET nearest_ports == find_nearest_ports(df.lat, df.lon, DefaultNumPorts)
          dest_port == ResolveDestination(dest)
      IN  IF nearest_ports.raised
          THEN Outcome("raised", TRUE, FALSE, DestinationNotFound, <<>>)
          ELSE IF Len(nearest_ports.ports) = 0
          THEN Outcome("error_no_nearest_port", TRUE, FALSE, DestinationNotFound, <<>>)
          ELSE IF dest_port = DestinationNotFound
          THEN Outcome("error_destination_not_found", TRUE, TRUE, DestinationNotFound, <<>>)
          ELSE IF Len(nearest_ports.ports) < RoutesPrinted
          THEN Outcome("raised", TRUE, TRUE, dest_port,
                       RouteDetails(nearest_ports.ports, dest_port))
          ELSE Outcome("map", TRUE, TRUE, dest_port,
                       RouteDetails(nearest_ports.ports, dest_port))

-----------------------------------------------------------------------------
(* The inputs of the router. *)

MaxNumPorts == 16    \* largest num_ports asked for

\* Coordinate pairs: the float positions, pairs with a value that is not a
\* finite number, and pairs with a value taken from an integer column.
CoordPairs ==
    {<<Num(FloatPositions[p].lat), Num(FloatPositions[p].lon)>> :
        p \in 1..Len(FloatPositions)}
    \cup {<<NaN, Num(10000000)>>, <<Num(10000000), NaN>>, <<NaN, NaN>>,
          <<Inf, Num(10000000)>>, <<PyNone, Num(10000000)>>,
          <<Num(10000000), PyNone>>, <<PyNone, PyNone>>,
          <<NpInt(13000000), Num(80270700)>>, <<Num(13082700), NpInt(80000000)>>,
          <<NpInt(13000000), NpInt(80000000)>>}

S_Singapore       == <<"S","i","n","g","a","p","o","r","e">>
S_singapore       == <<"s","i","n","g","a","p","o","r","e">>
S_SINGAPORE       == <<"S","I","N","G","A","P","O","R","E">>
S_Singapore_comma == <<"S","i","n","g","a","p","o","r","e",","," ">>
S_Chennai_India   == <<"C","h","e","n","n","a","i",","," ","I","n","d","i","a">>
S_USA             == <<"U","S","A">>
S_Atlantis        == <<"A","t","l","a","n","t","i","s">>
S_empty           == <<>>

DestNames == {S_Singapore, S_singapore, S_SINGAPORE, S_Singapore_comma,
              S_Chennai_India, S_USA, S_Atlantis, S_empty}

\* The row sets render_map_with_route is given for a float at (lat, lon).
FloatDfs(lat, lon) ==
    {[nrows |-> 0, has_lat |-> TRUE,  has_lon |-> TRUE,  lat |-> PyNone, lon |-> PyNone],
     [nrows |-> 1, has_lat |-> FALSE, has_lon |-> TRUE,  lat |-> PyNone, lon |-> lon],
     [nrows |-> 1, has_lat |-> TRUE,  has_lon |-> FALSE, lat |-> lat,    lon |-> PyNone],
     [nrows |-> 1, has_lat |-> TRUE,  has_lon |-> TRUE,  lat |-> lat,    lon |-> lon]}

EmptyTable == [nrows |-> 0, cols |-> <<>>]

\* num_ports is varied with the row set and destination held, and the row
\* set and destination with num_ports at its default.
InitRoute ==
    /\ \E c \in CoordPairs :
          /\ float_lat = c[1]
          /\ float_lon = c[2]
          /\ \/ /\ num_ports \in 0..MaxNumPorts
                /\ float_df = [nrows |-> 1, has_lat |-> TRUE, has_lon |-> TRUE,
                               lat |-> c[1], lon |-> c[2]]
                /\ dest_name = S_Singapore
             \/ /\ num_ports = DefaultNumPorts
                /\ float_df \in FloatDfs(c[1], c[2])
                /\ dest_name \in DestNames
    /\ nearest = NotCalled
    /\ rendered = NotCalled
    /\ table = EmptyTable
    /\ axes = NotCalled
    /\ detected = NotCalled
    /\ ChatIdle
    /\ RestIdle

FindNearestPorts ==
    /\ ~nearest.called
    /\ nearest' = find_nearest_ports(float_lat, float_lon, num_ports)
    /\ UNCHANGED <<float_lat, float_lon, num_ports, float_df, dest_name,
                   rendered, axesVars, chatVars, restVars>>

RenderMapWithRoute ==
    /\ ~rendered.called
    /\ rendered' = render_map_with_route(float_df, dest_name)
    /\ UNCHANGED <<float_lat, float_lon, num_ports, float_df, dest_name,
                   nearest, axesVars, chatVars, restVars>>

NextRoute == FindNearestPorts \/ RenderMapWithRoute

SpecRoute == InitRoute /\ [][NextRoute]_vars

-----------------------------------------------------------------------------
(* The chat app (test2.py): one script run replays the chat history and,   *)
(* when a question was submitted, asks the backend and shows the answer.   *)
(*                                                                         *)
(* A message is [role, content, data]; the data of a message or of a       *)
(* backend answer is [kind, rows]:                                         *)
(*   "list"     a list of rows rows                                        *)
(*   "other"    a value that is true and not a list                        *)
(*   "none"     None                                                       *)
(*   "missing"  no "data" key at all                                       *)

MaxData     == 2    \* rows of a backend answer
MaxLoaded   == 2    \* messages of a shared history
MaxMessages == 5    \* messages of the chat history

ListOf(n) == [kind |-> "list",    rows |-> n]
NotAList  == [kind |-> "other",   rows |-> 0]
NoneData  == [kind |-> "none",    rows |-> 0]
Missing   == [kind |-> "missing", rows |-> 0]

RawData == {ListOf(n) : n \in 0..MaxData} \cup {NotAList, NoneData, Missing}

Welcome == [role |-> "assistant", content |-> "welcome", data |-> ListOf(0)]

\* m.get("data", [])
PreviewData(m) == IF m.data.kind = "missing" THEN ListOf(0) ELSE m.data

\* isinstance(data_preview, list) and data_preview
ReplayShouldChart(d) == d.kind = "list" /\ d.rows # 0

\* The test of the new answer without the length.
M_FreshShouldChart_AnyList(d) == d.kind = "list"

\* isinstance(data, list) and len(data) > 0
FreshShouldChart(d) == d.kind = "list" /\ d.rows > 0

\* What the request to the backend yields: an exception, a JSON string,
\* another JSON value that is no object, or an object.
Responses ==
    {[kind |-> k, data |-> Missing] : k \in {"exception", "string", "nondict"}}
    \cup {[kind |-> "dict", data |-> d] : d \in RawData}

\* data = response_json.get("data") or [], after the normalisation of a
\* response that is no object to {"summary": ..., "data": []}.
ResponseData(r) ==
    IF r.kind # "dict" THEN ListOf(0)
    ELSE IF r.data.kind \in {"missing", "none"} THEN ListOf(0)
    ELSE IF r.data.kind = "list" /\ r.data.rows = 0 THEN ListOf(0)
    ELSE r.data

\* The choose_axes calls of the history loop: one for every message that is
\* not a map-state marker and whose data passes the test, with the number of
\* rows of the table it is given.
ReplayCalls(msgs) ==
    LET all == [i \in 1..Len(msgs) |->
                  [path |-> "replay", index |-> i,
                   kind |-> PreviewData(msgs[i]).kind,
                   rows |-> PreviewData(msgs[i]).rows]]
    IN  SelectSeq(all, LAMBDA c :
            /\ msgs[c.index].role # "system_map_state"
            /\ ReplayShouldChart(PreviewData(msgs[c.index])))

\* The messages a shared history can hold.
LoadedMessages ==
    {[role |-> r, content |-> "text", data |-> d] :
        r \in {"user", "assistant"}, d \in RawData}
    \cup {[role |-> "system_map_state", content |-> "text", data |-> Missing]}

InitChat ==
    /\ messages = <<Welcome>>
    /\ history_loaded = FALSE
    /\ chart_calls = <<>>
    /\ fresh = "none"
    /\ table = EmptyTable /\ axes = NotCalled /\ detected = NotCalled
    /\ float_lat = None /\ float_lon = None /\ num_ports = 0
    /\ nearest = NotCalled
    /\ float_df = None /\ dest_name = None
    /\ rendered = NotCalled
    /\ RestIdle

\* A run that fetches a non-empty shared history into a session that holds
\* only the welcome message: the history replaces the messages (without its
\* map-state markers) and the run ends in st.rerun().
LoadSharedHistory ==
    /\ ~history_loaded
    /\ Len(messages) = 1 /\ messages[1].content = "welcome"
    /\ \E n \in 1..MaxLoaded : \E loaded_history \in [1..n -> LoadedMessages] :
          messages' = SelectSeq(loaded_history,
                                LAMBDA m : m.role # "system_map_state")
    /\ history_loaded' = TRUE
    /\ chart_calls' = <<>>
    /\ fresh' = "none"
    /\ UNCHANGED <<axesVars, routeVars, restVars>>

\* A run without a submitted question: the history is replayed.
Rerun ==
    /\ chart_calls' = ReplayCalls(messages)
    /\ fresh' = "none"
    /\ UNCHANGED <<messages, history_loaded, axesVars, routeVars, restVars>>

\* A run with a submitted question: the history is replayed, the user
\* message appended, the backend asked, the answer charted or the no-data
\* notice shown, and the assistant message appended.
Submit ==
    /\ Len(messages) + 2 <= MaxMessages
    /\ \E r \in Responses :
          LET data == ResponseData(r)
          IN  /\ chart_calls' =
                    ReplayCalls(messages)
                    \o (IF FreshShouldChart(data)
                        THEN <<[path |-> "fresh", index |-> Len(messages) + 2,
                                kind |-> data.kind, rows |-> data.rows]>>
                        ELSE <<>>)
              /\ fresh' = IF FreshShouldChart(data) THEN "chart" ELSE "no_data_notice"
              /\ messages' = messages
                    \o <<[role |-> "user", content |-> "text", data |-> ListOf(0)],
                         [role |-> "assistant", content |-> "text", data |-> data]>>
    /\ UNCHANGED <<history_loaded, axesVars, routeVars, restVars>>

NextChat == LoadSharedHistory \/ Rerun \/ Submit

SpecChat == InitChat /\ [][NextChat]_vars

-----------------------------------------------------------------------------
(* download_argo_data.py: the recursive FTP mirror.                        *)
(*                                                                         *)
(* A remote or local path is a sequence of names below the server's root   *)
(* (resp. below the local download directory).  The remote tree maps each  *)
(* directory to its listing, a sequence of entries [name, is_dir] in the   *)
(* order ftp.dir reports them.  A local file records which remote file its *)
(* bytes came from and whether the transfer ran to the end.  Each call of  *)
(* download_directory_recursive is a frame of ftp_stack; every FTP command *)
(* may fail with an ftplib error, which the except clause of the frame     *)
(* that issued it catches (the frame then returns).                        *)

MaxRuns == 2    \* runs of main()

N_incois == <<"i","n","c","o","i","s">>
N_a      == <<"a">>
N_b_nc   == <<"b",".","n","c">>
N_c_txt  == <<"c",".","t","x","t">>
N_d_nc   == <<"d",".","n","c">>
N_p_nc   == <<"p",".","n","c">>
S_dot_nc == <<".","n","c">>

\* str.endswith
EndsWith(s, suf) ==
    /\ Len(s) >= Len(suf)
    /\ \A j \in 1..Len(suf) : s[Len(s) - Len(suf) + j] = suf[j]

DirEntry(name)  == [name |-> name, is_dir |-> TRUE]
FileEntry(name) == [name |-> name, is_dir |-> FALSE]

\* The server: /b.nc and /incois/b.nc are different files of one name, and
\* d.nc is a directory.
RemoteTree ==
    (<<>> :> <<DirEntry(N_incois), FileEntry(N_b_nc)>>)
    @@ (<<N_incois>> :> <<DirEntry(N_a), DirEntry(N_d_nc),
                          FileEntry(N_b_nc), FileEntry(N_c_txt)>>)
    @@ (<<N_incois, N_a>> :> <<FileEntry(N_p_nc)>>)
    @@ (<<N_incois, N_d_nc>> :> <<>>)

\* ftp_path_root of main()
ftp_path_root == <<N_incois>>

IsRemoteDir(path) == path \in DOMAIN RemoteTree

IsRemoteFile(path) ==
    /\ path # <<>>
    /\ LET parent == SubSeq(path, 1, Len(path) - 1)
       IN  /\ IsRemoteDir(parent)
           /\ \E i \in 1..Len(RemoteTree[parent]) :
                 RemoteTree[parent][i] = FileEntry(path[Len(path)])

\* The directory `cwd arg` asks for: arg is an absolute path or a name
\* relative to the working directory.
Absolute(path) == [abs |-> TRUE,  path |-> path]
Relative(name) == [abs |-> FALSE, path |-> <<name>>]
Resolve(cwd, arg) == IF arg.abs THEN arg.path ELSE cwd \o arg.path

\* The directory `cwd ..` leads to.
ParentDir(cwd) == IF cwd = <<>> THEN <<>> ELSE SubSeq(cwd, 1, Len(cwd) - 1)

\* os.path.exists
Exists(fs, path) == path \in DOMAIN fs

LocalDir == [kind |-> "dir", src |-> <<>>, complete |-> TRUE]
LocalFile(src, complete) == [kind |-> "file", src |-> src, complete |-> complete]

\* The local file system with one more (or one replaced) entry.
WithEntry(fs, path, e) ==
    [q \in DOMAIN fs \cup {path} |-> IF q = path THEN e ELSE fs[q]]

\* os.makedirs(local_dir) when the path does not exist.
MakeDirs(fs, path) == IF Exists(fs, path) THEN fs ELSE WithEntry(fs, path, LocalDir)

\* The download test without the os.path.exists half.
M_ShouldDownload_NoExistsCheck(fs, name, local_filepath) == EndsWith(name, S_dot_nc)

\* name.endswith('.nc') and not os.path.exists(local_filepath)
ShouldDownload(fs, name, local_filepath) ==
    EndsWith(name, S_dot_nc) /\ ~Exists(fs, local_filepath)

Frame(arg, local_dir) ==
    [arg |-> arg, local_dir |-> local_dir, pc |-> "enter",
     dir |-> <<>>, listing |-> <<>>, idx |-> 1]

Top == ftp_stack[Len(ftp_stack)]

Pop(s) == SubSeq(s, 1, Len(s) - 1)

SetTop(s, f) == [s EXCEPT ![Len(s)] = f]

\* What the loop body did with one listing entry.
Event(kind, f, existed) ==
    [kind |-> kind, entry |-> f.listing[f.idx], dir |-> f.dir, cwd |-> ftp_cwd,
     local_path |-> f.local_dir \o <<f.listing[f.idx].name>>,
     existed |-> existed, run |-> ftp_runs]

InitFtp ==
    /\ FtpIdle
    /\ IngestIdle
    /\ SessionIdle
    /\ table = EmptyTable /\ axes = NotCalled /\ detected = NotCalled
    /\ float_lat = None /\ float_lon = None /\ num_ports = 0
    /\ nearest = NotCalled
    /\ float_df = None /\ dest_name = None
    /\ rendered = NotCalled
    /\ ChatIdle

FtpOthers == <<axesVars, routeVars, chatVars, ingestVars, sessionVars>>

\* main(): connect, log in, mirror ftp_path_root into the download directory.
StartRun ==
    /\ ftp_stack = <<>>
    /\ ftp_runs < MaxRuns
    /\ ftp_runs' = ftp_runs + 1
    /\ ftp_cwd' = LoginDir
    /\ ftp_stack' = <<Frame(Absolute(ftp_path_root), <<>>)>>
    /\ ftp_event' = NoEvent
    /\ UNCHANGED <<local_fs, FtpOthers>>

\* Lines 12-18: cwd(remote_dir), makedirs, dir('.').  cwd fails when the
\* directory is not there, and either FTP command may fail.  (No local
\* directory path of this tree is ever taken by a file, so makedirs does
\* not fail.)
EnterDirectory ==
    /\ ftp_stack # <<>> /\ Top.pc = "enter"
    /\ LET target == Resolve(ftp_cwd, Top.arg)
       IN  \/ \* cwd raises
              /\ ftp_stack' = Pop(ftp_stack)
              /\ UNCHANGED <<ftp_cwd, local_fs>>
           \/ \* cwd and makedirs succeed, dir raises
              /\ IsRemoteDir(target)
              /\ ftp_cwd' = target
              /\ local_fs' = MakeDirs(local_fs, Top.local_dir)
              /\ ftp_stack' = Pop(ftp_stack)
           \/ \* all three succeed
              /\ IsRemoteDir(target)
              /\ ftp_cwd' = target
              /\ local_fs' = MakeDirs(local_fs, Top.local_dir)
              /\ ftp_stack' = SetTop(ftp_stack,
                                 [Top EXCEPT !.pc = "loop", !.dir = target,
                                             !.listing = RemoteTree[target]])
    /\ UNCHANGED <<ftp_event, ftp_runs, FtpOthers>>

AtEntry == ftp_stack # <<>> /\ Top.pc = "loop" /\ Top.idx <= Len(Top.listing)

\* Line 25: a directory entry; the recursive call.
Descend ==
    /\ AtEntry /\ Top.listing[Top.idx].is_dir
    /\ ftp_event' = Event("descend", Top, FALSE)
    /\ ftp_stack' = Append(SetTop(ftp_stack, [Top EXCEPT !.pc = "up"]),
                           Frame(Relative(Top.listing[Top.idx].name),
                                 Top.local_dir \o <<Top.listing[Top.idx].name>>))
    /\ UNCHANGED <<ftp_cwd, local_fs, ftp_runs, FtpOthers>>

\* Line 26: ftp.cwd('..') after the recursive call has returned.
CwdUp ==
    /\ ftp_stack # <<>> /\ Top.pc = "up"
    /\ \/ /\ ftp_cwd' = ParentDir(ftp_cwd)
          /\ ftp_stack' = SetTop(ftp_stack, [Top EXCEPT !.pc = "loop", !.idx = @ + 1])
       \/ /\ ftp_stack' = Pop(ftp_stack)
          /\ UNCHANGED ftp_cwd
    /\ UNCHANGED <<local_fs, ftp_event, ftp_runs, FtpOthers>>

\* Lines 31-34: open(local_filepath, 'wb') and RETR name.  The server sends
\* the file of that name in the working directory; the transfer may stop
\* part-way, and fails at once when there is no such file.
Download ==
    /\ AtEntry /\ ~Top.listing[Top.idx].is_dir
    /\ LET name == Top.listing[Top.idx].name
           local_filepath == Top.local_dir \o <<name>>
           served == ftp_cwd \o <<name>>
       IN  /\ ShouldDownload(local_fs, name, local_filepath)
           /\ ftp_event' = Event("retr", Top, Exists(local_fs, local_filepath))
           /\ \/ /\ IsRemoteFile(served)
                 /\ local_fs' = WithEntry(local_fs, local_filepath, LocalFile(served, TRUE))
                 /\ ftp_stack' = SetTop(ftp_stack, [Top EXCEPT !.idx = @ + 1])
              \/ /\ local_fs' = WithEntry(local_fs, local_filepath,
                                          LocalFile(served, FALSE))
                 /\ ftp_stack' = Pop(ftp_stack)
    /\ UNCHANGED <<ftp_cwd, ftp_runs, FtpOthers>>

\* Line 36: the file is skipped.
SkipFile ==
    /\ AtEntry /\ ~Top.listing[Top.idx].is_dir
    /\ LET name == Top.listing[Top.idx].name
           local_filepath == Top.local_dir \o <<name>>
       IN  /\ ~ShouldDownload(local_fs, name, local_filepath)
           /\ ftp_event' = Event("skip", Top, Exists(local_fs, local_filepath))
    /\ ftp_stack' = SetTop(ftp_stack, [Top EXCEPT !.idx = @ + 1])
    /\ UNCHANGED <<ftp_cwd, local_fs, ftp_runs, FtpOthers>>

\* The loop is over: the call returns.
ReturnFromDirectory ==
    /\ ftp_stack # <<>> /\ Top.pc = "loop" /\ Top.idx > Len(Top.listing)
    /\ ftp_stack' = Pop(ftp_stack)
    /\ UNCHANGED <<ftp_cwd, local_fs, ftp_event, ftp_runs, FtpOthers>>

NextFtp ==
    \/ StartRun \/ EnterDirectory \/ Descend \/ CwdUp
    \/ Download \/ SkipFile \/ ReturnFromDirectory

SpecFtp == InitFtp /\ [][NextFtp]_vars

-----------------------------------------------------------------------------
(* process_and_load.py: ingestion into SQLite and the FAISS index.         *)
(*                                                                         *)
(* A file of the download directory is [key, rows]: the profile            *)
(* (float_id, cycle_number) it holds and the number of rows its dataset    *)
(* gives as a DataFrame; a dataset with a dimension of length zero gives   *)
(* none.  argo_profiles records, for each profile, how many files' worth   *)
(* of rows it holds.  df.to_sql commits its rows when it succeeds and      *)
(* rolls back when it fails; the index and the map live in memory until    *)
(* the two writes at the end of the run.  The process may be stopped at    *)
(* any point of a run.                                                     *)

MaxIngestRuns == 3    \* runs of process_and_load_data

ProfileKeys == {"K1", "K2"}

\* os.walk(ARGO_DATA_DIR): two files of one profile, and a file whose
\* dataset gives no rows.
ArgoFiles == <<[key |-> "K1", rows |-> 2],
               [key |-> "K1", rows |-> 1],
               [key |-> "K2", rows |-> 0]>>

\* faiss.IndexFlatL2(embedding_dim) and {}: the index as the sequence of
\* the profiles its vectors were made from, the map from positions
\* (0-based) to profiles.
EmptyIndex == <<>>
EmptyMap   == [p \in {} |-> "K1"]

Stored(v) == [exists |-> TRUE, value |-> v]

\* faiss_index.ntotal
ntotal(index) == Len(index)

\* The number of vectors of profile k in an index.
VectorsOf(index, k) == Cardinality({i \in 1..Len(index) : index[i] = k})

\* SELECT 1 FROM argo_profiles WHERE float_id = ? AND cycle_number = ?
AlreadyProcessed(profiles, k) == profiles[k] > 0

\* df.to_sql('argo_profiles', conn, if_exists='append'): the rows of one
\* file are appended; a DataFrame without rows appends nothing.
ToSql(profiles, f) ==
    IF f.rows > 0 THEN [profiles EXCEPT ![f.key] = @ + 1] ELSE profiles

\* faiss_index.add(embedding)
IndexAdd(index, k) == Append(index, k)

\* float_metadata_map[faiss_index.ntotal - 1] = {...}, after the add
MapPut(map, index, k) ==
    [p \in DOMAIN map \cup {ntotal(index) - 1} |->
        IF p = ntotal(index) - 1 THEN k ELSE map[p]]

\* What the latest pass of the loop body did with its file.
NoFile == [kind |-> "none"]
FileEvent(kind, f, stored) == [kind |-> kind, file |-> f, stored |-> stored]

IngestOthers == <<axesVars, routeVars, chatVars, ftpVars, sessionVars>>

InitIngest ==
    /\ IngestIdle
    /\ FtpIdle
    /\ SessionIdle
    /\ table = EmptyTable /\ axes = NotCalled /\ detected = NotCalled
    /\ float_lat = None /\ float_lon = None /\ num_ports = 0
    /\ nearest = NotCalled
    /\ float_df = None /\ dest_name = None
    /\ rendered = NotCalled
    /\ ChatIdle

\* Lines 23-62: the tables exist, and the index and the map are read from
\* disk when both files are there.
StartIngest ==
    /\ ingest_pc = "idle"
    /\ ingest_runs < MaxIngestRuns
    /\ ingest_runs' = ingest_runs + 1
    /\ ingest_pc' = "walk"
    /\ ingest_next' = 1
    /\ ingest_event' = NoFile
    /\ IF disk_index.exists /\ disk_map.exists
       THEN /\ faiss_index' = disk_index.value
            /\ float_metadata_map' = disk_map.value
       ELSE /\ faiss_index' = EmptyIndex
            /\ float_metadata_map' = EmptyMap
    /\ UNCHANGED <<argo_profiles, disk_index, disk_map, IngestOthers>>

\* Lines 69-130: the loop body for the next file.  An exception anywhere in
\* the try block is caught and the loop goes on.
ProcessFile ==
    /\ ingest_pc = "walk" /\ ingest_next <= Len(ArgoFiles)
    /\ ingest_next' = ingest_next + 1
    /\ LET f == ArgoFiles[ingest_next]
           stored == AlreadyProcessed(argo_profiles, f.key)
       IN  \/ \* the file cannot be opened or read (lines 73-76)
              /\ ingest_event' = FileEvent("unreadable", f, FALSE)
              /\ UNCHANGED <<argo_profiles, faiss_index, float_metadata_map>>
           \/ \* already processed (lines 79-82)
              /\ stored
              /\ ingest_event' = FileEvent("skipped", f, stored)
              /\ UNCHANGED <<argo_profiles, faiss_index, float_metadata_map>>
           \/ \* an exception before to_sql has committed (lines 86-101)
              /\ ~stored
              /\ ingest_event' = FileEvent("failed_before_load", f, stored)
              /\ UNCHANGED <<argo_profiles, faiss_index, float_metadata_map>>
           \/ \* an exception after to_sql has committed (lines 106-117)
              /\ ~stored
              /\ ingest_event' = FileEvent("failed_after_load", f, stored)
              /\ argo_profiles' = ToSql(argo_profiles, f)
              /\ UNCHANGED <<faiss_index, float_metadata_map>>
           \/ \* the whole body runs (lines 86-127)
              /\ ~stored
              /\ ingest_event' = FileEvent("loaded", f, stored)
              /\ argo_profiles' = ToSql(argo_profiles, f)
              /\ faiss_index' = IndexAdd(faiss_index, f.key)
              /\ float_metadata_map' =
                    MapPut(float_metadata_map, IndexAdd(faiss_index, f.key), f.key)
    /\ UNCHANGED <<ingest_pc, ingest_runs, disk_index, disk_map, IngestOthers>>

\* Line 133: faiss.write_index
WriteIndex ==
    /\ ingest_pc = "walk" /\ ingest_next > Len(ArgoFiles)
    /\ disk_index' = Stored(faiss_index)
    /\ ingest_pc' = "index_written"
    /\ UNCHANGED <<argo_profiles, disk_map, faiss_index, float_metadata_map,
                   ingest_next, ingest_event, ingest_runs, IngestOthers>>

\* Lines 134-139: np.save of the map; the run is over.
SaveMap ==
    /\ ingest_pc = "index_written"
    /\ disk_map' = Stored(float_metadata_map)
    /\ ingest_pc' = "idle"
    /\ UNCHANGED <<argo_profiles, disk_index, faiss_index, float_metadata_map,
                   ingest_next, ingest_event, ingest_runs, IngestOthers>>

\* The process is stopped during a run: what is in memory is lost, what has
\* been committed or written stays.
StopProcess ==
    /\ ingest_pc # "idle"
    /\ ingest_pc' = "idle"
    /\ faiss_index' = EmptyIndex
    /\ float_metadata_map' = EmptyMap
    /\ UNCHANGED <<argo_profiles, disk_index, disk_map,
                   ingest_next, ingest_event, ingest_runs, IngestOthers>>

NextIngest == StartIngest \/ ProcessFile \/ WriteIndex \/ SaveMap \/ StopProcess

SpecIngest == InitIngest /\ [][NextIngest]_vars

-----------------------------------------------------------------------------
(* The chat app (test2.py): the session state across script runs.          *)
(*                                                                         *)
(* A step is one run of the script from top to bottom for one user input,  *)
(* or the on_change callback of the language selector, which Streamlit     *)
(* runs before the script.  A run that calls st.rerun() ends there and the *)
(* next run follows without user input (run_due).  Each block of the       *)
(* script is an operator from the session state to the session state.      *)
(*                                                                         *)
(* A message here is [role, content, data, user_query]; a content is       *)
(* [text, lang]: which text it is and the language it is in ("-" for text  *)
(* that was typed or sent as it is).  The map-state marker of a shared     *)
(* history is kept apart from its messages.  A row of a location answer is *)
(* [latitude, longitude], each a kind of value:                            *)
(*   "num" a finite number, "inf" an infinite one, "numstr" a string that  *)
(*   parses as a number, "str" any other string, "null" None, "missing"    *)
(*   no such key in the row.                                               *)

MaxLocRows         == 2    \* rows of a location answer
MaxHistoryFetches  == 2    \* fetches of the shared history that are followed
MaxSessionMessages == 3    \* messages a submission may bring the history to

\* LANGUAGES: two of the five entries.
LANGUAGES == [English |-> "en", Hindi |-> "hi"]

Text(text, lang) == [text |-> text, lang |-> lang]

\* t("welcome") under a language code
t_welcome(lang) == Text("welcome", lang)

Message(role, content, data, user_query) ==
    [role |-> role, content |-> content, data |-> data, user_query |-> user_query]

\* Line 345: the initial message.
InitialMessage(lang) == Message("assistant", t_welcome(lang), ListOf(0), "")

NoData == [present |-> FALSE, rows |-> <<>>]
DataFrameOf(rows) == [present |-> TRUE, rows |-> rows]

\* st.session_state as the script sees it.
Session ==
    [messages |-> messages, history_loaded |-> history_loaded,
     lang_code |-> lang_code, do_translate |-> do_translate,
     map_is_visible |-> map_is_visible, map_float_data |-> map_float_data,
     map_float_id |-> map_float_id, map_dest |-> map_dest,
     fetch_map_data |-> fetch_map_data]

\* Lines 342-359 on a new session.
NewSession ==
    [messages |-> <<InitialMessage("en")>>, history_loaded |-> FALSE,
     lang_code |-> "en", do_translate |-> FALSE,
     map_is_visible |-> FALSE, map_float_data |-> NoData,
     map_float_id |-> "", map_dest |-> "",
     fetch_map_data |-> FALSE]

-----------------------------------------------------------------------------
(* update_language, lines 315-329. *)

update_language(s, name) ==
    IF s.lang_code = LANGUAGES[name]
    THEN s
    ELSE [s EXCEPT !.lang_code = LANGUAGES[name],
                   !.do_translate = IF Len(s.messages) > 1 THEN TRUE ELSE @]

-----------------------------------------------------------------------------
(* The shared-history block, lines 366-404. *)

NoMapState == [present |-> FALSE, map_id |-> "", map_dest |-> ""]
MapState(id, dest) == [present |-> TRUE, map_id |-> id, map_dest |-> dest]

SharedMessages ==
    <<InitialMessage("en"),
      Message("user", Text("prompt", "-"), ListOf(0), "q"),
      Message("assistant", Text("summary", "en"), ListOf(1), "q")>>

\* resp.json().get("history", []), as its messages and its marker
SharedHistories ==
    {[messages |-> <<>>, map_state |-> NoMapState],
     [messages |-> SharedMessages, map_state |-> NoMapState],
     [messages |-> SharedMessages, map_state |-> MapState("F1", "port")]}

NoFetch == [made |-> FALSE, ok |-> FALSE, history |-> [messages |-> <<>>, map_state |-> NoMapState]]
FetchFailed == [made |-> TRUE, ok |-> FALSE, history |-> [messages |-> <<>>, map_state |-> NoMapState]]
Fetched(h) == [made |-> TRUE, ok |-> TRUE, history |-> h]

FetchOutcomes == {FetchFailed} \cup {Fetched(h) : h \in SharedHistories}

\* Lines 368 and 375: the block asks the backend.
HistoryFetchApplies(s, url) == url /\ ~s.history_loaded

\* Line 382
initial_message_is_default(s) ==
    Len(s.messages) = 1 /\ s.messages[1].content = t_welcome(s.lang_code)

\* Line 384: loaded_history is a non-empty list.
HistoryIsNonEmpty(h) == h.messages # <<>> \/ h.map_state.present

HistoryBlock(s, fetch) ==
    IF ~fetch.made THEN [s |-> s, rerun |-> FALSE]
    ELSE IF fetch.ok /\ initial_message_is_default(s) /\ HistoryIsNonEmpty(fetch.history)
    THEN [s |-> [s EXCEPT !.messages = fetch.history.messages,
                          !.history_loaded = TRUE,
                          !.map_float_id = IF fetch.history.map_state.present
                                           THEN fetch.history.map_state.map_id ELSE @,
                          !.map_dest = IF fetch.history.map_state.present
                                       THEN fetch.history.map_state.map_dest ELSE @,
                          !.fetch_map_data = IF fetch.history.map_state.present
                                             THEN TRUE ELSE @],
          rerun |-> TRUE]
    ELSE [s |-> s, rerun |-> FALSE]

-----------------------------------------------------------------------------
(* The sidebar, lines 407-489: the route button. *)

NoInput      == [kind |-> "none",   arg |-> ""]
SubmitOf(q)  == [kind |-> "submit", arg |-> q]
RouteOf(id)  == [kind |-> "route",  arg |-> id]

\* dest_port_name of the selectbox
SelectedDestination == "port"

SidebarBlock(s, input) ==
    IF input.kind = "route"
    THEN [s EXCEPT !.map_is_visible = FALSE,
                   !.map_float_data = NoData,
                   !.map_float_id = input.arg,
                   !.map_dest = SelectedDestination,
                   !.fetch_map_data = TRUE]
    ELSE s

-----------------------------------------------------------------------------
(* The history translation block, lines 493-522. *)

\* m.get("data") is true
DataIsTrue(d) == (d.kind = "list" /\ d.rows > 0) \/ d.kind = "other"

\* Line 499
Resummarised(m) ==
    m.role = "assistant" /\ DataIsTrue(m.data) /\ m.user_query # ""

ResummarisedAt(msgs) == {i \in 1..Len(msgs) : Resummarised(msgs[i])}

\* What a re-summarise request yields: a summary, an answer without one, or
\* an exception.
TranslationOutcomes == {"summary", "no_summary", "failed"}

NoTranslation == << >>

\* Lines 499-519 for message i (1-based here).
TranslateMessage(m, i, lang, outcome) ==
    IF Resummarised(m)
    THEN IF outcome = "summary"
         THEN [m EXCEPT !.content = Text("summary", lang)]
         ELSE m
    ELSE IF i = 1 /\ m.role = "assistant"
         THEN [m EXCEPT !.content = t_welcome(lang)]
         ELSE m

\* The block with a failed message left out of the new list.
M_TranslationBlock_DropsFailed(s, tr) ==
    IF ~s.do_translate THEN [s |-> s, rerun |-> FALSE]
    ELSE LET translated ==
                [i \in 1..Len(s.messages) |->
                    TranslateMessage(s.messages[i], i, s.lang_code,
                        IF i \in DOMAIN tr THEN tr[i] ELSE "failed")]
             kept == {i \in 1..Len(s.messages) : ~(i \in DOMAIN tr /\ tr[i] = "failed")}
             nth(k) == CHOOSE i \in kept : Cardinality({j \in kept : j < i}) = k - 1
         IN  [s |-> [s EXCEPT !.do_translate = FALSE,
                              !.messages = [k \in 1..Cardinality(kept) |->
                                               translated[nth(k)]]],
              rerun |-> TRUE]

TranslationBlock(s, tr) ==
    IF ~s.do_translate THEN [s |-> s, rerun |-> FALSE]
    ELSE [s |-> [s EXCEPT !.do_translate = FALSE,
                          !.messages =
                             [i \in 1..Len(s.messages) |->
                                 TranslateMessage(s.messages[i], i, s.lang_code,
                                     IF i \in DOMAIN tr THEN tr[i] ELSE "failed")]],
          rerun |-> TRUE]

-----------------------------------------------------------------------------
(* The map data block, lines 525-568. *)

LocRow(lat, lon) == [latitude |-> lat, longitude |-> lon]

LocRows ==
    {LocRow("num", "num"), LocRow("numstr", "num"), LocRow("inf", "num"),
     LocRow("str", "null"), LocRow("missing", "num")}

NoLocation == [made |-> FALSE, ok |-> FALSE, rows |-> <<>>]
LocationFailed == [made |-> TRUE, ok |-> FALSE, rows |-> <<>>]
LocationOf(rows) == [made |-> TRUE, ok |-> TRUE, rows |-> rows]

\* What the location request yields: an exception, or the list under "data".
LocationOutcomes ==
    {LocationFailed}
    \cup {LocationOf(rows) : rows \in UNION {[1..n -> LocRows] : n \in 0..MaxLocRows}}

\* pd.to_numeric(..., errors='coerce') on one value; a key that a row lacks
\* is NaN in the DataFrame.
ToNumericCoerce(v) ==
    CASE v \in {"num", "numstr"} -> "num"
      [] v = "inf" -> "inf"
      [] OTHER -> "null"

CoerceRows(rows) ==
    [i \in 1..Len(rows) |-> LocRow(ToNumericCoerce(rows[i].latitude),
                                   ToNumericCoerce(rows[i].longitude))]

\* float_df.dropna(subset=['latitude', 'longitude'])
DropNa(rows) ==
    SelectSeq(rows, LAMBDA r : r.latitude # "null" /\ r.longitude # "null")

\* The cleaning without the dropna.
M_CleanRows_NoDropNa(rows) == CoerceRows(rows)

\* Lines 545-548
CleanRows(rows) == DropNa(CoerceRows(rows))

\* Line 543
HasLatLon(rows) ==
    /\ rows # <<>>
    /\ rows[1].latitude # "missing"
    /\ rows[1].longitude # "missing"

Hidden(s) == [s EXCEPT !.map_is_visible = FALSE]

\* The block that leaves the flag as it is.
M_MapBlock_FlagKept(s, loc) ==
    IF ~s.fetch_map_data THEN [s |-> s, rerun |-> FALSE]
    ELSE [s |-> IF s.map_float_id = "" \/ ~loc.ok \/ ~HasLatLon(loc.rows)
                   \/ CleanRows(loc.rows) = <<>>
                THEN Hidden(s)
                ELSE [s EXCEPT !.map_float_data = DataFrameOf(CleanRows(loc.rows)),
                               !.map_is_visible = TRUE],
          rerun |-> TRUE]

MapBlock(s, loc) ==
    IF ~s.fetch_map_data THEN [s |-> s, rerun |-> FALSE]
    ELSE LET s1 == [s EXCEPT !.fetch_map_data = FALSE]
         IN  [s |-> IF s1.map_float_id = "" \/ ~loc.ok \/ ~HasLatLon(loc.rows)
                       \/ CleanRows(loc.rows) = <<>>
                    THEN Hidden(s1)
                    ELSE [s1 EXCEPT !.map_float_data = DataFrameOf(CleanRows(loc.rows)),
                                    !.map_is_visible = TRUE],
              rerun |-> TRUE]

-----------------------------------------------------------------------------
(* The display, lines 573-603. *)

\* Line 573 with render_map_with_route: geopy refuses an infinite
\* coordinate and the ValueError ends the run.
RenderRaises(s) ==
    /\ s.map_is_visible /\ s.map_float_data.present
    /\ s.map_float_data.rows # <<>>
    /\ \/ s.map_float_data.rows[1].latitude = "inf"
       \/ s.map_float_data.rows[1].longitude = "inf"

\* Lines 586-587: an assistant message with the English welcome text is
\* shown, and kept, in the session's language.
HistoryLoop(s) ==
    [s EXCEPT !.messages =
        [i \in 1..Len(s.messages) |->
            IF s.messages[i].role = "assistant"
               /\ s.messages[i].content = t_welcome("en")
            THEN [s.messages[i] EXCEPT !.content = t_welcome(s.lang_code)]
            ELSE s.messages[i]]]

-----------------------------------------------------------------------------
(* The submit handler, lines 621-684. *)

NoResponse == [kind |-> "none", data |-> Missing]

\* Line 623
HandlerRuns(input) == input.kind = "submit" /\ input.arg # ""

\* summary, lines 636-647
Summary(r, lang) ==
    CASE r.kind = "exception" -> Text("error", lang)
      [] r.kind = "string"    -> Text("body", "-")
      [] r.kind = "nondict"   -> Text("invalid_response", lang)
      [] OTHER                -> Text("summary", lang)

\* The handler that gives up when the request raises.
M_SubmitBlock_NoAnswerOnError(s, input, r) ==
    IF ~HandlerRuns(input) THEN s
    ELSE [s EXCEPT !.messages =
            IF r.kind = "exception"
            THEN Append(@, Message("user", Text("prompt", "-"), ListOf(0), input.arg))
            ELSE @ \o <<Message("user", Text("prompt", "-"), ListOf(0), input.arg),
                        Message("assistant", Summary(r, s.lang_code),
                                ResponseData(r), input.arg)>>]

SubmitBlock(s, input, r) ==
    IF ~HandlerRuns(input) THEN s
    ELSE [s EXCEPT !.messages =
            @ \o <<Message("user", Text("prompt", "-"), ListOf(0), input.arg),
                   Message("assistant", Summary(r, s.lang_code),
                           ResponseData(r), input.arg)>>]

-----------------------------------------------------------------------------
(* The steps. *)

\* What a run of the script did.
RunOf(input, fetch, ended, tr, passed, loc, response) ==
    [kind |-> "script", input |-> input, fetched |-> fetch.made,
     ended |-> ended, tr |-> tr, pass |-> passed, loc_rows |-> Len(loc.rows),
     response |-> response.kind]

CallbackOf(name) == [kind |-> "callback", name |-> name]

Inputs ==
    {NoInput, SubmitOf("q"), SubmitOf(""), RouteOf("F1"), RouteOf("")}

SessionOthers == <<table, axes, detected, routeVars, chart_calls, fresh,
                   ftpVars, ingestVars>>

SetSession(s) ==
    /\ messages' = s.messages
    /\ history_loaded' = s.history_loaded
    /\ lang_code' = s.lang_code
    /\ do_translate' = s.do_translate
    /\ map_is_visible' = s.map_is_visible
    /\ map_float_data' = s.map_float_data
    /\ map_float_id' = s.map_float_id
    /\ map_dest' = s.map_dest
    /\ fetch_map_data' = s.fetch_map_data

\* The session after lines 341-359 of its first run, opened with or without
\* a history_id in the URL; the first run of the script is due.
InitSession ==
    /\ url_history_id \in BOOLEAN
    /\ messages = NewSession.messages
    /\ history_loaded = NewSession.history_loaded
    /\ lang_code = NewSession.lang_code
    /\ do_translate = NewSession.do_translate
    /\ map_is_visible = NewSession.map_is_visible
    /\ map_float_data = NewSession.map_float_data
    /\ map_float_id = NewSession.map_float_id
    /\ map_dest = NewSession.map_dest
    /\ fetch_map_data = NewSession.fetch_map_data
    /\ run_due = TRUE
    /\ history_fetches = 0
    /\ map_owed = 0
    /\ last_run = NoRun
    /\ chart_calls = <<>>
    /\ fresh = "none"
    /\ table = EmptyTable /\ axes = NotCalled /\ detected = NotCalled
    /\ float_lat = None /\ float_lon = None /\ num_ports = 0
    /\ nearest = NotCalled
    /\ float_df = None /\ dest_name = None
    /\ rendered = NotCalled
    /\ FtpIdle
    /\ IngestIdle

\* The on_change callback of the language selector; the script runs next.
UpdateLanguage ==
    /\ ~run_due
    /\ \E name \in DOMAIN LANGUAGES :
          /\ SetSession(update_language(Session, name))
          /\ last_run' = CallbackOf(name)
    /\ run_due' = TRUE
    /\ UNCHANGED <<url_history_id, history_fetches, map_owed, SessionOthers>>

\* One run of the script, lines 341-684, for one input.  A run that is due
\* after st.rerun() or a callback has no input of its own.
ScriptRun ==
    \E input \in Inputs :
       /\ run_due => input = NoInput
       /\ HandlerRuns(input) => Len(messages) + 2 <= MaxSessionMessages
       /\ HistoryFetchApplies(Session, url_history_id)
             => history_fetches < MaxHistoryFetches
       /\ \E fetch \in (IF HistoryFetchApplies(Session, url_history_id)
                        THEN FetchOutcomes ELSE {NoFetch}) :
          LET b1 == HistoryBlock(Session, fetch)
              s2 == SidebarBlock(b1.s, input)
          IN
          \E tr \in (IF ~b1.rerun /\ s2.do_translate
                     THEN [ResummarisedAt(s2.messages) -> TranslationOutcomes]
                     ELSE {NoTranslation}) :
          LET b3 == TranslationBlock(s2, tr)
          IN
          \E loc \in (IF ~b1.rerun /\ ~b3.rerun /\ b3.s.fetch_map_data
                         /\ b3.s.map_float_id # ""
                      THEN LocationOutcomes ELSE {NoLocation}) :
          LET b4 == MapBlock(b3.s, loc)
              shown == ~b1.rerun /\ ~b3.rerun /\ ~b4.rerun
              aborted == shown /\ RenderRaises(b4.s)
          IN
          \E response \in (IF shown /\ ~aborted /\ HandlerRuns(input)
                           THEN Responses ELSE {NoResponse}) :
          LET ended == IF b1.rerun THEN "history_rerun"
                       ELSE IF b3.rerun THEN "translation_rerun"
                       ELSE IF b4.rerun THEN "map_rerun"
                       ELSE IF aborted THEN "aborted"
                       ELSE "end"
              final == CASE ended = "history_rerun" -> b1.s
                         [] ended = "translation_rerun" -> b3.s
                         [] ended \in {"map_rerun", "aborted"} -> b4.s
                         [] OTHER -> SubmitBlock(HistoryLoop(b4.s), input, response)
              triggers == (IF b1.rerun /\ fetch.history.map_state.present THEN 1 ELSE 0)
                          + (IF ~b1.rerun /\ input.kind = "route" THEN 1 ELSE 0)
              passes == IF ended = "map_rerun" THEN 1 ELSE 0
          IN  /\ SetSession(final)
              /\ run_due' = (ended \in {"history_rerun", "translation_rerun",
                                        "map_rerun"})
              /\ history_fetches' = history_fetches + (IF fetch.made THEN 1 ELSE 0)
              /\ map_owed' = map_owed + triggers - passes
              /\ last_run' = RunOf(input, fetch, ended, tr,
                                   ended = "map_rerun", loc, response)
    /\ UNCHANGED <<url_history_id, SessionOthers>>

NextSession == UpdateLanguage \/ ScriptRun

SpecSession == InitSession /\ [][NextSession]_vars

-----------------------------------------------------------------------------
(* Properties of choose_axes, checked under SpecAxes.                      *)

\* A column counts as numeric when it is of a numeric type or every value in
\* it is a number, a numeric string or missing (an empty column always does).
LooksNumeric(col) ==
    \/ col.dtype = "number"
    \/ \A i \in 1..Len(col.vals) : col.vals[i] \in {"num", "null", "numstr"}

HasColumn(n) == \E i \in 1..Len(table.cols) : table.cols[i].name = n

ColumnAt(n) == CHOOSE i \in 1..Len(table.cols) : table.cols[i].name = n

Column(n) == table.cols[ColumnAt(n)]

\* The positions of the numeric columns, and of the columns whose lower-cased
\* name contains kw.
NumericAt == {i \in 1..Len(table.cols) : LooksNumeric(table.cols[i])}

NamedAt(kw) == {i \in 1..Len(table.cols) : Contains(kw, Lower(table.cols[i].name))}

AllValidDates(col) == \A i \in 1..Len(col.vals) : col.vals[i] = "datestr"

NoDateDetected == detect_date_column(to_numeric_df(table)) = None

Unset(a) == a.x = None /\ a.y = None

\* C1: a table of exactly one row with at least one numeric column gets
\* kind = bar with x and y unset, whatever other columns it has.
C1_SingleRowBar ==
    (axes.called /\ table.nrows = 1 /\ NumericAt # {})
        => (axes.kind = "bar" /\ Unset(axes))

\* A single-row table with a date column of valid dates, a pressure column and
\* a numeric column has been given bar.
C1_Witness ==
    /\ axes.called /\ table.nrows = 1 /\ axes.kind = "bar"
    /\ HasColumn(S_date) /\ HasColumn(S_pressure) /\ Len(table.cols) = 3
    /\ Column(S_date).vals = <<"datestr">>
    /\ Column(S_pressure).vals = <<"str">>

\* C2 as stated: a table with a column "date" of valid dates and a column
\* "temperature" gets (date, temperature, line), for every row count and every
\* type of the temperature values.
C2_AsStated ==
    (/\ axes.called
     /\ HasColumn(S_date) /\ AllValidDates(Column(S_date))
     /\ HasColumn(S_temperature))
        => axes = Axes(S_date, S_temperature, "line")

\* C2 amended: a table whose row count is not one, whose column "date" holds
\* valid dates and is the first column with "date" in its name, and whose
\* column "temperature" is numeric and the first numeric column with
\* "temperature" in its name, gets (date, temperature, line).
C2_DateTemperatureLine ==
    (/\ axes.called
     /\ table.nrows # 1
     /\ HasColumn(S_date) /\ AllValidDates(Column(S_date))
     /\ \A i \in NamedAt(S_date) : i >= ColumnAt(S_date)
     /\ HasColumn(S_temperature) /\ LooksNumeric(Column(S_temperature))
     /\ \A i \in NamedAt(S_temperature) \cap NumericAt : i >= ColumnAt(S_temperature))
        => axes = Axes(S_date, S_temperature, "line")

\* A two-row table with date, then a numeric salinity, then a numeric
\* temperature column has been given (date, temperature, line).
C2_Witness ==
    /\ axes.called /\ table.nrows = 2 /\ Len(table.cols) = 3
    /\ table.cols[1].name = S_date /\ table.cols[1].vals = <<"datestr", "datestr">>
    /\ table.cols[2].name = S_salinity /\ table.cols[2].vals = <<"num", "num">>
    /\ table.cols[3].name = S_temperature /\ table.cols[3].vals = <<"numstr", "numstr">>
    /\ axes = Axes(S_date, S_temperature, "line")

\* C3 as stated: a table with a column "pressure", a column "salinity" and no
\* date column gets (salinity, pressure, line), whatever the row count, the
\* other columns and the types of the values.
C3_AsStated ==
    (/\ axes.called
     /\ HasColumn(S_pressure) /\ HasColumn(S_salinity)
     /\ NamedAt(S_date) = {})
        => axes = Axes(S_salinity, S_pressure, "line")

\* C3 amended: a table whose row count is not one, in which no date column is
\* detected, whose column "pressure" is the first with "pressure" in its name,
\* whose column "salinity" is numeric and the first numeric column with
\* "salinity" in its name, and which has no numeric column with "temperature"
\* in its name, gets (salinity, pressure, line).
C3_SalinityPressureLine ==
    (/\ axes.called
     /\ table.nrows # 1
     /\ NoDateDetected
     /\ HasColumn(S_pressure)
     /\ \A i \in NamedAt(S_pressure) : i >= ColumnAt(S_pressure)
     /\ HasColumn(S_salinity) /\ LooksNumeric(Column(S_salinity))
     /\ \A i \in NamedAt(S_salinity) \cap NumericAt : i >= ColumnAt(S_salinity)
     /\ NamedAt(S_temperature) \cap NumericAt = {})
        => axes = Axes(S_salinity, S_pressure, "line")

\* A two-row table with a pressure column of strings, then a numeric depth
\* column, then a numeric salinity column has been given
\* (salinity, pressure, line).
C3_Witness ==
    /\ axes.called /\ table.nrows = 2 /\ Len(table.cols) = 3
    /\ table.cols[1].name = S_pressure /\ table.cols[1].vals = <<"str", "str">>
    /\ table.cols[2].name = S_depth /\ table.cols[2].vals = <<"num", "num">>
    /\ table.cols[3].name = S_salinity /\ table.cols[3].vals = <<"num", "num">>
    /\ axes = Axes(S_salinity, S_pressure, "line")

FirstNumeric == SetMin(NumericAt)

SecondNumeric == SetMin(NumericAt \ {FirstNumeric})

\* C4 as stated: a table with exactly two numeric columns and no date or
\* pressure column gets (first numeric, second numeric, scatter), for every
\* row count.
C4_AsStated ==
    (/\ axes.called
     /\ Cardinality(NumericAt) = 2
     /\ NamedAt(S_date) = {} /\ NamedAt(S_pressure) = {})
        => axes = Axes(table.cols[FirstNumeric].name,
                       table.cols[SecondNumeric].name, "scatter")

\* C4 amended: a table whose row count is not one, with exactly two numeric
\* columns, no detected date column and no column with "pressure" in its
\* name, gets (first numeric, second numeric, scatter) in column order.
C4_TwoNumericScatter ==
    (/\ axes.called
     /\ table.nrows # 1
     /\ Cardinality(NumericAt) = 2
     /\ NoDateDetected /\ NamedAt(S_pressure) = {})
        => axes = Axes(table.cols[FirstNumeric].name,
                       table.cols[SecondNumeric].name, "scatter")

\* A two-row table whose first column is a date-named column of plain
\* strings and whose other two columns are numeric has been given scatter.
C4_Witness ==
    /\ axes.called /\ table.nrows = 2 /\ Len(table.cols) = 3
    /\ table.cols[1].name = S_date /\ table.cols[1].vals = <<"str", "str">>
    /\ Cardinality(NumericAt) = 2
    /\ axes.kind = "scatter"
    /\ axes.x = table.cols[2].name /\ axes.y = table.cols[3].name

\* C5 as stated: a table with zero rows, whatever its column set, gets
\* kind = table with x and y unset.
C5_AsStated ==
    (axes.called /\ table.nrows = 0)
        => (axes.kind = "table" /\ Unset(axes))

\* C5 amended: a table with zero rows and no columns gets kind = table with
\* x and y unset; a table with zero rows and two or more columns of numeric
\* type gets line or scatter with x and y set.
C5_EmptyTable ==
    (axes.called /\ table.nrows = 0)
        => /\ table.cols = <<>> => (axes.kind = "table" /\ Unset(axes))
           /\ (/\ Len(table.cols) >= 2
               /\ \A i \in 1..Len(table.cols) : table.cols[i].dtype = "number")
                 => /\ axes.kind \in {"line", "scatter"}
                    /\ axes.x # None /\ axes.y # None

\* The table with no rows and no columns has been given kind = table.
C5_Witness ==
    /\ axes.called /\ table.nrows = 0 /\ table.cols = <<>>
    /\ axes.kind = "table"

-----------------------------------------------------------------------------
(* Properties of the router, checked under SpecRoute.                      *)

CatalogIndex(name) ==
    CHOOSE i \in 1..NumPortsInCatalog : GLOBAL_OCEAN_PORTS[i].name = name

IsCatalogPort(r) ==
    \E i \in 1..NumPortsInCatalog :
        /\ GLOBAL_OCEAN_PORTS[i].name = r.name
        /\ GLOBAL_OCEAN_PORTS[i].lat = r.lat
        /\ GLOBAL_OCEAN_PORTS[i].lon = r.lon

FloatPoint == [lat |-> float_lat.val, lon |-> float_lon.val]

FiniteCoordinates == IsFinite(float_lat) /\ IsFinite(float_lon)

\* Finite numbers of the types find_nearest_ports is declared to take.
ValidCoordinates ==
    FiniteCoordinates /\ IsIntOrFloat(float_lat) /\ IsIntOrFloat(float_lon)

\* The catalog entries find_nearest_ports did not return.
NotReturned ==
    {i \in 1..NumPortsInCatalog :
        \A k \in 1..Len(nearest.ports) :
            nearest.ports[k].name # GLOBAL_OCEAN_PORTS[i].name}

\* The rounding step of the reported distances, in decimetres (0.01 km).
RoundingStepDm == 100

\* C6: find_nearest_ports returns an empty sequence, without raising,
\* whenever its latitude or longitude is not a finite number.
C6_NonFiniteReturnsEmpty ==
    (nearest.called /\ ~FiniteCoordinates)
        => (~nearest.raised /\ nearest.ports = <<>>)

C8_SortedStable ==
    (nearest.called /\ ~nearest.raised)
        => \A k, l \in 1..Len(nearest.ports) :
              k < l =>
                 /\ nearest.ports[k].distance_from_float
                       <= nearest.ports[l].distance_from_float
                 /\ nearest.ports[k].distance_from_float
                       = nearest.ports[l].distance_from_float
                    => CatalogIndex(nearest.ports[k].name)
                          < CatalogIndex(nearest.ports[l].name)

\* Two ports at the same reported distance have been returned, the one whose
\* geodesic distance is the larger first.
C8_Witness ==
    /\ nearest.called /\ ~nearest.raised /\ Len(nearest.ports) >= 2
    /\ nearest.ports[1].distance_from_float = nearest.ports[2].distance_from_float
    /\ GeodesicDm(FloatPoint, Coords(nearest.ports[1]))
          > GeodesicDm(FloatPoint, Coords(nearest.ports[2]))

SingaporeEntry == CatalogIndex(S_Singapore)

\* C9 as stated: "singapore", "SINGAPORE" and "Singapore, " all resolve to
\* the catalog entry "Singapore".
C9_AsStated ==
    (/\ rendered.called /\ rendered.dest_looked_up
     /\ dest_name \in {S_singapore, S_SINGAPORE, S_Singapore_comma})
        => rendered.dest_port = SingaporeEntry

\* C9 amended: the lookup is case-insensitive and finds the first catalog
\* entry whose name contains the destination string: "Singapore",
\* "singapore" and "SINGAPORE" resolve to the entry "Singapore", and
\* "Singapore, ", which no catalog name contains, resolves to no entry.
C9_CaseInsensitiveSubstring ==
    (rendered.called /\ rendered.dest_looked_up)
        => /\ dest_name \in {S_Singapore, S_singapore, S_SINGAPORE}
                => rendered.dest_port = SingaporeEntry
           /\ dest_name = S_Singapore_comma
                => rendered.dest_port = DestinationNotFound
           /\ rendered.dest_port # DestinationNotFound
                => /\ Contains(Lower(dest_name),
                               Lower(GLOBAL_OCEAN_PORTS[rendered.dest_port].name))
                   /\ \A i \in 1..(rendered.dest_port - 1) :
                         ~Contains(Lower(dest_name),
                                   Lower(GLOBAL_OCEAN_PORTS[i].name))

\* The destination "SINGAPORE" has been resolved to the entry "Singapore"
\* and the map drawn.
C9_Witness ==
    /\ rendered.called /\ rendered.map
    /\ dest_name = S_SINGAPORE
    /\ rendered.dest_port = SingaporeEntry

\* No catalog name contains the destination string, case-insensitively.
InNoPortName(dest) ==
    \A i \in 1..NumPortsInCatalog :
        ~Contains(Lower(dest), Lower(GLOBAL_OCEAN_PORTS[i].name))

\* The row set has a first row with both columns and finite floating-point
\* numbers in them.
UsableRowSet ==
    /\ float_df.nrows > 0 /\ float_df.has_lat /\ float_df.has_lon
    /\ IsFinite(float_df.lat) /\ IsFinite(float_df.lon)
    /\ IsIntOrFloat(float_df.lat) /\ IsIntOrFloat(float_df.lon)

-----------------------------------------------------------------------------
(* Properties of the route list, checked under SpecRoute.                  *)

RouteList == rendered.route_details

RoutePort(i) == GLOBAL_OCEAN_PORTS[CatalogIndex(RouteList[i].name)]

DestPort == GLOBAL_OCEAN_PORTS[rendered.dest_port]

AbsDiff(a, b) == IF a >= b THEN a - b ELSE b - a

\* C11: for every route of the list (the primary and each alternate) the
\* reported total_distance is the reported distance_to_port plus the geodesic
\* distance from the port to the destination, rounded to 0.01 km;
\* distance_to_port is the rounded geodesic distance from the float to the
\* port, and the total is within 0.01 km of the sum of the two geodesic
\* distances computed independently.
C11_TotalDistance ==
    (rendered.called /\ RouteList # <<>>)
        => \A i \in 1..Len(RouteList) :
              /\ RouteList[i].distance_to_port
                    = Round2(GeodesicDm(FloatPoint, Coords(RoutePort(i))))
              /\ RouteList[i].total_distance
                    = Round2(RouteList[i].distance_to_port * RoundingStepDm
                             + GeodesicDm(Coords(RoutePort(i)), Coords(DestPort)))
              /\ AbsDiff(RouteList[i].total_distance * RoundingStepDm,
                         GeodesicDm(FloatPoint, Coords(RoutePort(i)))
                         + GeodesicDm(Coords(RoutePort(i)), Coords(DestPort)))
                    <= RoundingStepDm

\* The map has been drawn for a float at none of the ports with destination
\* "Chennai, India": four routes, the first through a port that is not the
\* destination, one of the others through the destination itself.
C11_Witness ==
    /\ rendered.called /\ rendered.map /\ Len(RouteList) = 4
    /\ dest_name = S_Chennai_India
    /\ RouteList[1].distance_to_port > 0
    /\ RouteList[1].total_distance > RouteList[1].distance_to_port
    /\ \E i \in 2..4 : /\ RouteList[i].name = S_Chennai_India
                       /\ RouteList[i].total_distance = RouteList[i].distance_to_port

PrimaryAt == {i \in 1..Len(RouteList) : RouteList[i].is_primary}

\* C12: a non-empty route list has exactly one entry flagged primary, the
\* first one, and it is the port nearest to the float (no catalog port has a
\* smaller reported distance, and none is nearer by as much as the 0.01 km
\* the distances are rounded to); the list is in the order of
\* find_nearest_ports (by reported distance from the float, equal distances
\* in catalog order, every port left out coming after the listed ones),
\* whatever the totals are.
C12_PrimaryFirst ==
    (rendered.called /\ RouteList # <<>>)
        => LET first_port == RoutePort(1)
               \* the sort key of find_nearest_ports, then the catalog position
               Before(d1, p1, d2, p2) == d1 < d2 \/ (d1 = d2 /\ p1 < p2)
               At(i) == CatalogIndex(RouteList[i].name)
               Listed == {At(i) : i \in 1..Len(RouteList)}
           IN  /\ PrimaryAt = {1}
               /\ \A p \in 1..NumPortsInCatalog :
                     /\ RouteList[1].distance_to_port
                           <= Round2(GeodesicDm(FloatPoint, Coords(GLOBAL_OCEAN_PORTS[p])))
                     /\ GeodesicDm(FloatPoint, Coords(first_port))
                           < GeodesicDm(FloatPoint, Coords(GLOBAL_OCEAN_PORTS[p]))
                                + RoundingStepDm
               /\ \A i, j \in 1..Len(RouteList) :
                     i < j => Before(RouteList[i].distance_to_port, At(i),
                                     RouteList[j].distance_to_port, At(j))
               /\ \A i \in 1..Len(RouteList) :
                     \A p \in (1..NumPortsInCatalog) \ Listed :
                        Before(RouteList[i].distance_to_port, At(i),
                               Round2(GeodesicDm(FloatPoint,
                                                 Coords(GLOBAL_OCEAN_PORTS[p]))), p)
               /\ \A i, j \in 1..Len(RouteList) :
                     i < j => RouteList[i].distance_to_port
                                 <= RouteList[j].distance_to_port

\* The map has been drawn with a primary route whose total is larger than
\* that of the first alternate: the list is not in order of total_distance.
C12_Witness ==
    /\ rendered.called /\ rendered.map /\ Len(RouteList) = 4
    /\ RouteList[1].is_primary
    /\ RouteList[1].total_distance > RouteList[2].total_distance

-----------------------------------------------------------------------------
(* Further properties of choose_axes, checked under SpecAxes.              *)

CaughtByBarRule == table.nrows = 1 /\ NumericAt # {}

\* The first date-like column, as detect_date_column finds it.
DateColumn == detect_date_column(to_numeric_df(table))

\* The names of the numeric columns, in column order.
NumericNames == NumericCols(to_numeric_df(table))

\* C13 as stated: a table not caught by the single-row bar rule that has a
\* date-like column gets kind = line with x = that column.
C13_AsStated ==
    (axes.called /\ ~CaughtByBarRule /\ DateColumn # None)
        => (axes.kind = "line" /\ axes.x = DateColumn)

\* C13 amended: a table not caught by the single-row bar rule that has a
\* date-like column and at least one numeric column gets kind = line with
\* x = the first date-like column and y = the preferred numeric column, or
\* the first numeric column when none is preferred; the pressure and scatter
\* rules are not applied.
C13_DateRuleFirst ==
    (axes.called /\ ~CaughtByBarRule /\ DateColumn # None /\ NumericAt # {})
        => /\ axes.kind = "line"
           /\ axes.x = DateColumn
           /\ axes.y = IF FirstPreferred(DatePrefs, ColumnNames(table), NumericNames) # None
                       THEN FirstPreferred(DatePrefs, ColumnNames(table), NumericNames)
                       ELSE table.cols[FirstNumeric].name

\* A two-row table with a numeric salinity column, a numeric pressure column
\* and then a date column of valid dates has been given (date, salinity,
\* line): neither the pressure rule nor the scatter rule was applied.
C13_Witness ==
    /\ axes.called /\ table.nrows = 2 /\ Len(table.cols) = 3
    /\ table.cols[1].name = S_salinity /\ table.cols[1].vals = <<"num", "num">>
    /\ table.cols[2].name = S_pressure /\ table.cols[2].vals = <<"num", "num">>
    /\ table.cols[3].name = S_date /\ table.cols[3].vals = <<"datestr", "datestr">>
    /\ axes = Axes(S_date, S_salinity, "line")

-----------------------------------------------------------------------------
(* Properties of detect_date_column, checked under SpecDate.               *)

TheColumn == table.cols[1]

CountOf(kinds) ==
    Cardinality({i \in 1..Len(TheColumn.vals) : TheColumn.vals[i] \in kinds})

Parsed  == CountOf({"datestr"})
NonNull == CountOf({"datestr", "str"})
Failed  == CountOf({"str"})

NameHasDate == Contains(S_date, Lower(TheColumn.name))

IsDetected == detected.name # None

\* C14 as stated: the column is detected exactly when its name contains
\* "date" and every value parses as a date or at least 25% of its non-null
\* values do; a column whose name matches and none of whose values parse is
\* not detected, for every column length.
C14_AsStated ==
    detected.called
        => /\ IsDetected <=>
                 /\ NameHasDate
                 /\ \/ Parsed = Len(TheColumn.vals)
                    \/ NonNull > 0 /\ 4 * Parsed >= NonNull
           /\ (NameHasDate /\ Parsed = 0) => ~IsDetected

\* C14 amended: the column is detected exactly when its name contains "date"
\* (case-insensitive) and either no value fails to parse (missing values do
\* not fail, so a column that is empty or holds only missing values is
\* detected) or the number of values that parse is at least
\* max(1, floor(length / 4)), the length counting missing values; a column
\* whose name matches, with a value that fails to parse and none that parses,
\* is not detected, for every column length.
C14_DateLike ==
    detected.called
        => /\ IsDetected <=>
                 /\ NameHasDate
                 /\ \/ Failed = 0
                    \/ Parsed >= Max(1, Len(TheColumn.vals) \div 4)
           /\ (NameHasDate /\ Failed > 0 /\ Parsed = 0) => ~IsDetected
           /\ IsDetected => detected.name = TheColumn.name

\* A column "obs_date" of eight values, one a date, five other strings and
\* two missing, has not been detected: one value in eight parses and the
\* threshold is two.
C14_Witness ==
    /\ detected.called /\ ~IsDetected
    /\ TheColumn.name = S_obs_date /\ Len(TheColumn.vals) = 8
    /\ Parsed = 1 /\ Failed = 5

-----------------------------------------------------------------------------
(* Further properties of choose_axes, checked under SpecAxes.              *)

ChartKinds == {"bar", "line", "scatter", "table"}

\* C15: for every table choose_axes returns a triple whose kind is bar, line,
\* scatter or table, with x and y both unset when the kind is bar or table
\* and both names of columns of the table when it is line or scatter.
C15_Total ==
    axes.called
        => /\ axes.kind \in ChartKinds
           /\ axes.kind \in {"bar", "table"} => Unset(axes)
           /\ axes.kind \in {"line", "scatter"}
                 => (HasColumn(axes.x) /\ HasColumn(axes.y))

\* A two-row table with a column of strings that numeric coercion leaves as
\* it is, a column of missing values and a column of numbers has been given
\* a chart with x and y set.
C15_Witness ==
    /\ axes.called /\ table.nrows = 2 /\ Len(table.cols) = 3
    /\ \E i, j, k \in 1..3 :
          /\ table.cols[i].vals = <<"str", "str">>
          /\ table.cols[j].vals = <<"null", "null">>
          /\ table.cols[k].vals = <<"num", "num">>
    /\ axes.kind \in {"line", "scatter"}
    /\ HasColumn(axes.x) /\ HasColumn(axes.y)

-----------------------------------------------------------------------------
(* Further properties of render_map_with_route, checked under SpecRoute.   *)

\* The row set is empty, lacks a column, or its first row's latitude or
\* longitude is not a finite number.
LacksValidLatLon ==
    \/ float_df.nrows = 0
    \/ ~float_df.has_lat \/ ~float_df.has_lon
    \/ ~IsFinite(float_df.lat) \/ ~IsFinite(float_df.lon)

Notices == {"warning_no_data", "warning_no_lat_lon", "error_no_nearest_port",
            "error_destination_not_found"}

\* C16: whenever the float's row set lacks a valid latitude/longitude,
\* render_map_with_route shows a notice, renders no map and raises nothing.
C16_GracefulFailure ==
    (rendered.called /\ LacksValidLatLon)
        => (rendered.outcome \in Notices /\ ~rendered.map)

-----------------------------------------------------------------------------
(* Properties of the chat app, checked under SpecChat.                     *)

CallsOf(path, i) ==
    {k \in 1..Len(chart_calls) :
        chart_calls[k].path = path /\ chart_calls[k].index = i}

ZeroRows(d) == d.kind = "list" /\ d.rows = 0

\* C17: choose_axes is invoked only with a non-empty row list, on the replay
\* of the history and for a new answer; a history message with zero rows gets
\* no chart, and a new answer with zero rows gets the no-data notice.
C17_ZeroRowsNeverCharted ==
    /\ \A k \in 1..Len(chart_calls) :
          chart_calls[k].kind = "list" /\ chart_calls[k].rows > 0
    /\ \A i \in 1..Len(messages) :
          ZeroRows(PreviewData(messages[i])) => CallsOf("replay", i) = {}
    /\ fresh # "none"
          => /\ ZeroRows(messages[Len(messages)].data)
                   => (fresh = "no_data_notice"
                       /\ CallsOf("fresh", Len(messages)) = {})
             /\ fresh = "chart" => messages[Len(messages)].data.rows > 0

\* A run has replayed a shared history with a zero-row message and a message
\* with rows, charting only the latter, and has shown the no-data notice for
\* a new answer without rows.
C17_Witness ==
    /\ history_loaded /\ fresh = "no_data_notice"
    /\ Len(messages) = 4
    /\ messages[1].data = ListOf(0)
    /\ messages[2].data = ListOf(2)
    /\ messages[4].data = ListOf(0)
    /\ Len(chart_calls) = 1
    /\ chart_calls[1] = [path |-> "replay", index |-> 2, kind |-> "list", rows |-> 2]

-----------------------------------------------------------------------------
(* Properties of the port catalog, checked under SpecRoute.                *)

LowerNames == [i \in 1..NumPortsInCatalog |-> Lower(GLOBAL_OCEAN_PORTS[i].name)]

\* C18: no two entries of the catalog have the same name, compared
\* case-insensitively; so the entry a destination has resolved to is the
\* only one of its name.
C18_UniqueNames ==
    /\ \A i, j \in 1..NumPortsInCatalog : i # j => LowerNames[i] # LowerNames[j]
    /\ (rendered.called /\ rendered.dest_port # DestinationNotFound)
          => \A i \in 1..NumPortsInCatalog :
                LowerNames[i] = LowerNames[rendered.dest_port]
                => i = rendered.dest_port

\* The destination "singapore" has been looked up and has resolved to the
\* one entry whose lower-cased name it equals.
C18_Witness ==
    /\ rendered.called /\ rendered.dest_looked_up
    /\ dest_name = S_singapore
    /\ rendered.dest_port = SingaporeEntry
    /\ Cardinality({i \in 1..NumPortsInCatalog :
                       Lower(GLOBAL_OCEAN_PORTS[i].name) = Lower(dest_name)}) = 1

-----------------------------------------------------------------------------
(* Further properties of choose_axes, checked under SpecAxes.              *)

\* C19: a table with no numeric column (none after the numeric coercion)
\* gets (unset, unset, table), whatever its row count and whether or not it
\* has a date-like column or a pressure column.
C19_NoNumericTable ==
    (axes.called /\ NumericAt = {})
        => axes = Axes(None, None, "table")

\* A two-row table with a date column of valid dates, a pressure column of
\* strings and no numeric column has been given table.
C19_Witness ==
    /\ axes.called /\ table.nrows = 2 /\ NumericAt = {}
    /\ DateColumn = S_date
    /\ HasColumn(S_pressure)
    /\ axes = Axes(None, None, "table")

\* C20: the x and y columns returned by choose_axes are never the same
\* column.
C20_DistinctAxes ==
    (axes.called /\ axes.kind \in {"line", "scatter"})
        => axes.x # axes.y

-----------------------------------------------------------------------------
(* Properties of the FTP mirror, checked under SpecFtp.                    *)

EventName == ftp_event.entry.name

\* C21: a listing entry that is processed is fetched (RETR) exactly when it
\* is not a directory, its name ends in ".nc" and nothing exists at its
\* local path; and no step changes or removes a local file that exists.
C21_FetchExactlyNewNc ==
    /\ [](ftp_event.kind # "none"
            => (ftp_event.kind = "retr"
                  <=> /\ ~ftp_event.entry.is_dir
                      /\ EndsWith(EventName, S_dot_nc)
                      /\ ~ftp_event.existed))
    /\ [][\A p \in DOMAIN local_fs :
             local_fs[p].kind = "file"
                => (p \in DOMAIN local_fs' /\ local_fs'[p] = local_fs[p])]_vars

\* In a second run a/p.nc is being fetched for the first time, while b.nc,
\* downloaded by the first run, has been left alone and c.txt has never
\* been fetched.
C21_Witness ==
    /\ ftp_runs = 2
    /\ ftp_event.kind = "retr" /\ EventName = N_p_nc /\ ~ftp_event.existed
    /\ Exists(local_fs, <<N_b_nc>>)
    /\ local_fs[<<N_b_nc>>] = LocalFile(<<N_incois, N_b_nc>>, TRUE)
    /\ Exists(local_fs, <<N_d_nc>>) /\ local_fs[<<N_d_nc>>].kind = "dir"
    /\ ~Exists(local_fs, <<N_c_txt>>)

\* C22: a ".nc" entry that is skipped because its local path exists has a
\* complete copy of that entry at the path.
C22_SkippedAreComplete ==
    (/\ ftp_event.kind = "skip"
     /\ EndsWith(EventName, S_dot_nc)
     /\ ftp_event.existed)
        => local_fs[ftp_event.local_path]
              = LocalFile(ftp_event.dir \o <<EventName>>, TRUE)

\* C23: whenever the loop over the listing of a directory is about to
\* process an entry, the session's working directory is that directory.
C23_WorkingDirectoryIsListed ==
    AtEntry => ftp_cwd = Top.dir

-----------------------------------------------------------------------------
(* Properties of the ingestion, checked under SpecIngest.                  *)

\* C24: every profile is stored in argo_profiles at most once and has at
\* most one vector in the index, in memory and on disk; and a file that was
\* read while its profile was stored was skipped.
C24_AtMostOnce ==
    /\ \A k \in ProfileKeys :
          /\ argo_profiles[k] <= 1
          /\ VectorsOf(faiss_index, k) <= 1
          /\ disk_index.exists => VectorsOf(disk_index.value, k) <= 1
    /\ (ingest_event.kind \notin {"none", "unreadable"} /\ ingest_event.stored)
          => ingest_event.kind = "skipped"

\* C25: between runs, every profile stored in argo_profiles has a vector in
\* the index on disk, and the map on disk has exactly the positions
\* 0..ntotal-1 of that index.
C25_StoredProfilesIndexed ==
    ingest_pc = "idle"
        => /\ \A k \in ProfileKeys :
                 argo_profiles[k] > 0
                    => disk_index.exists /\ VectorsOf(disk_index.value, k) >= 1
           /\ disk_index.exists
                 => /\ disk_map.exists
                    /\ DOMAIN disk_map.value = 0..(ntotal(disk_index.value) - 1)
           /\ disk_map.exists => disk_index.exists

-----------------------------------------------------------------------------
(* Properties of the session logic of the chat app, checked under          *)
(* SpecSession.                                                            *)

\* C26: in a session opened with a history_id in the URL, the backend is
\* asked for the shared history at most once.
C26_FetchedAtMostOnce ==
    url_history_id => history_fetches <= 1

ScriptRan == last_run.kind = "script"

\* C27: every trigger of the map fetch is answered by exactly one pass of
\* the map block: the triggers not yet answered are one while the flag is
\* set and none while it is clear; the flag is clear whenever the app waits
\* for the user; a pass leaves the flag clear and ends in a rerun; a run
\* makes a pass only when the flag was set before it or the route button
\* was pressed in it; and the run after a pass makes none.
C27_OnePassPerTrigger ==
    /\ [](map_owed = (IF fetch_map_data THEN 1 ELSE 0))
    /\ [](~run_due => ~fetch_map_data)
    /\ []((ScriptRan /\ last_run.pass) => (~fetch_map_data /\ run_due))
    /\ [][(ScriptRan' /\ last_run'.pass)
             => (fetch_map_data \/ last_run'.input.kind = "route")]_vars
    /\ [][(ScriptRan /\ last_run.pass)
             => (ScriptRan' /\ ~last_run'.pass)]_vars

\* A shared history with a map state has been loaded, the one pass it
\* triggered has fetched the float's position, and the run after it has
\* shown the map and ended without a rerun.
C27_Witness ==
    /\ history_loaded /\ history_fetches = 1
    /\ map_float_id = "F1" /\ map_is_visible
    /\ ScriptRan /\ last_run.ended = "end" /\ last_run.input = NoInput
    /\ ~run_due /\ ~fetch_map_data /\ map_owed = 0

NumericKinds == {"num", "inf"}

\* C28: while the map is visible, the float data is present, has a row, and
\* every row of it (the first included) holds a number for latitude and
\* for longitude.
C28_VisibleMapHasData ==
    map_is_visible
        => /\ map_float_data.present
           /\ map_float_data.rows # <<>>
           /\ \A i \in 1..Len(map_float_data.rows) :
                 /\ map_float_data.rows[i].latitude \in NumericKinds
                 /\ map_float_data.rows[i].longitude \in NumericKinds

\* A pass has made the map visible from an answer of two rows of which one
\* had to be dropped.
C28_Witness ==
    /\ ScriptRan /\ last_run.pass /\ last_run.input = RouteOf("F1")
    /\ last_run.loc_rows = 2
    /\ map_is_visible /\ Len(map_float_data.rows) = 1

HandlerRan == ScriptRan /\ last_run.response # "none"

\* C29: a run in which the submit handler runs appends a user message and
\* then an assistant message and leaves the roles and data of the earlier
\* messages alone; when the request raised or the body was no JSON object,
\* the assistant message has an error or stand-in summary and empty data;
\* and a run that reaches the handler with a non-empty question runs it.
C29_SubmissionAppendsTwo ==
    /\ [][HandlerRan'
            => /\ Len(messages') = Len(messages) + 2
               /\ messages'[Len(messages) + 1].role = "user"
               /\ messages'[Len(messages) + 2].role = "assistant"
               /\ \A i \in 1..Len(messages) :
                     /\ messages'[i].role = messages[i].role
                     /\ messages'[i].data = messages[i].data
               /\ last_run'.response \in {"exception", "string", "nondict"}
                     => /\ messages'[Len(messages) + 2].data = ListOf(0)
                        /\ messages'[Len(messages) + 2].content.text
                              \in {"error", "body", "invalid_response"}]_vars
    /\ []((ScriptRan /\ last_run.ended = "end" /\ last_run.input = SubmitOf("q"))
             => HandlerRan)

\* A question was submitted, the request raised, and the history ends with
\* the question and an error message without data.
C29_Witness ==
    /\ HandlerRan /\ last_run.response = "exception"
    /\ Len(messages) = 3
    /\ messages[2].role = "user"
    /\ messages[3] = Message("assistant", Text("error", lang_code), ListOf(0), "q")

TranslationRan == ScriptRan /\ last_run.ended = "translation_rerun"

\* C30: a translation pass keeps the number, order, roles, data and
\* questions of the messages, clears do_translate, and keeps the content of
\* every message whose re-summarise request failed; the callback called
\* with the language already active changes nothing of the session state,
\* and with another one it sets the language and, when the history has more
\* than one message, do_translate.
C30_TranslationKeepsHistory ==
    /\ [][TranslationRan'
            => /\ do_translate /\ ~do_translate'
               /\ Len(messages') = Len(messages)
               /\ \A i \in 1..Len(messages) :
                     /\ messages'[i].role = messages[i].role
                     /\ messages'[i].data = messages[i].data
                     /\ messages'[i].user_query = messages[i].user_query
                     /\ (i \in DOMAIN last_run'.tr /\ last_run'.tr[i] = "failed")
                           => messages'[i].content = messages[i].content]_vars
    /\ [][last_run'.kind = "callback"
            => IF LANGUAGES[last_run'.name] = lang_code
               THEN Session' = Session
               ELSE /\ lang_code' = LANGUAGES[last_run'.name]
                    /\ do_translate' = (do_translate \/ Len(messages) > 1)]_vars

\* After a change to Hindi the pass has run; the answer's request failed and
\* its English summary is still there, while the welcome is in Hindi.
C30_Witness ==
    /\ TranslationRan /\ lang_code = "hi" /\ ~do_translate
    /\ Len(messages) = 3
    /\ 3 \in DOMAIN last_run.tr /\ last_run.tr[3] = "failed"
    /\ messages[1].content = t_welcome("hi")
    /\ messages[3].content = Text("summary", "en")

=============================================================================
